---- MODULE Spec2Model ----
(***************************************************************************)
(* Import of an existing Cognito user pool and its two app clients         *)
(* (amplify-category-auth, provider-utils/awscloudformation/import.ts),    *)
(* the paged listing helper pagedAWSCall (aws-utils.ts) and the Cognito     *)
(* service wrapper that fronts the remote API.                              *)
(***************************************************************************)
EXTENDS Integers, Sequences, FiniteSets, TLC

(***************************************************************************)
(* Bounds of the model.                                                    *)
(***************************************************************************)
\* Largest number of user pools the remote listing holds.
MaxPools == 2
\* Largest number of app clients one user pool holds.
MaxClients == 3
\* Largest number of passes through the app client selection loop.
MaxAttempts == 2
\* Largest number of pages of one paged listing.
MaxPages == 3
\* Largest number of items on one page of a paged listing.
MaxPageItems == 2
\* Largest number of calls made on one instance of the Cognito service.
MaxCalls == 3

(***************************************************************************)
(* JavaScript values.  `undefined` in a string or boolean slot is NoValue, *)
(* in an array slot NoList, in an object slot a record with the single     *)
(* field `undefined`.  Booleans that may be undefined are "true"/"false".  *)
(***************************************************************************)
NoValue == "<undefined>"
NoList == <<"<undefined>">>
NoObject == [undefined |-> TRUE]

\* `xs || []`
OrEmpty(xs) == IF xs = NoList THEN <<>> ELSE xs

\* lodash _.isEmpty on an array or undefined
isEmpty(xs) == xs = NoList \/ Len(xs) = 0

\* Every string the model sorts, in the order of String comparison by UTF-16
\* code units (the default order of Array.prototype.sort).
StrOrder ==
  << "", "COGNITO", "Facebook", "Google", "LoginWithAmazon", "SignInWithApple",
     "code", "email", "false", "https://a/", "https://b/", "implicit", "openid",
     "true" >>

Rank(s) == CHOOSE i \in 1..Len(StrOrder) : StrOrder[i] = s

RECURSIVE Insert(_, _)
Insert(sortedSeq, x) ==
  IF sortedSeq = <<>> THEN <<x>>
  ELSE IF Rank(x) < Rank(Head(sortedSeq)) THEN <<x>> \o sortedSeq
  ELSE <<Head(sortedSeq)>> \o Insert(Tail(sortedSeq), x)

\* (variant: the array is left in the order it came)
unsorted(xs) == xs

\* [...xs].sort()
RECURSIVE sort(_)
sort(xs) == IF xs = <<>> THEN <<>> ELSE Insert(sort(Tail(xs)), Head(xs))

Range(xs) == {xs[i] : i \in 1..Len(xs)}

\* (variant: no padding cells are made)
noPadding(n, x) == <<>>

\* _.times(n, () => '')
RECURSIVE times(_, _)
times(n, x) == IF n <= 0 THEN <<>> ELSE <<x>> \o times(n - 1, x)

(***************************************************************************)
(* import.ts: the matching step and its comparison tables.                 *)
(***************************************************************************)
supportedIdentityProviders == <<"COGNITO", "Facebook", "Google", "LoginWithAmazon">>

\* (variant: the two arrays compared without sorting)
isArraysEqualUnsorted(left, right) == OrEmpty(left) = OrEmpty(right)

isArraysEqual(left, right) == sort(OrEmpty(left)) = sort(OrEmpty(right))

\* One rendered table: the title line and the rows handed to print.table,
\* the first row being the two client names.
showValidationTable(title, appClientWeb, appClientNative, webValues, nativeValues) ==
  LET webSorted == sort(OrEmpty(webValues))
      nativeSorted == sort(OrEmpty(nativeValues))
      rowsDiff == IF Len(webSorted) < Len(nativeSorted)
                  THEN Len(nativeSorted) - Len(webSorted)
                  ELSE Len(webSorted) - Len(nativeSorted)
      webNames == IF Len(webSorted) < Len(nativeSorted)
                  THEN webSorted \o times(rowsDiff, "") ELSE webSorted
      nativeNames == IF Len(webSorted) > Len(nativeSorted)
                     THEN nativeSorted \o times(rowsDiff, "") ELSE nativeSorted
  IN [ title |-> title,
       header |-> <<appClientWeb.ClientName, appClientNative.ClientName>>,
       rows |-> [i \in 1..Len(webNames) |->
                  <<webNames[i], IF i <= Len(nativeNames) THEN nativeNames[i] ELSE NoValue>>] ]

\* `flag?.toString() || ''`
flagToString(flag) == IF flag = NoValue THEN "" ELSE flag

filteredProviders(providers) ==
  SelectSeq(providers, LAMBDA p : p \in Range(supportedIdentityProviders))

oauthPropertiesOf(appClient) ==
  [ callbackURLs |-> appClient.CallbackURLs,
    logoutURLs |-> appClient.LogoutURLs,
    allowedOAuthFlows |-> appClient.AllowedOAuthFlows,
    allowedOAuthScopes |-> appClient.AllowedOAuthScopes,
    allowedOAuthFlowsUserPoolClient |-> appClient.AllowedOAuthFlowsUserPoolClient ]

\* (variant: every pair is valid, with the web client's settings)
alwaysMatching(appClientWeb, appClientNative) ==
  IF isEmpty(appClientWeb.SupportedIdentityProviders)
  THEN [ isValid |-> TRUE, oauthProviders |-> NoList,
         oauthProperties |-> NoObject, tables |-> <<>> ]
  ELSE [ isValid |-> TRUE,
         oauthProviders |-> filteredProviders(appClientWeb.SupportedIdentityProviders),
         oauthProperties |-> oauthPropertiesOf(appClientWeb),
         tables |-> <<>> ]

appClientsOAuthPropertiesMatching(appClientWeb, appClientNative) ==
  LET callbackUrlMatching ==
        isArraysEqual(appClientWeb.CallbackURLs, appClientNative.CallbackURLs)
      logoutUrlsMatching ==
        isArraysEqual(appClientWeb.LogoutURLs, appClientNative.LogoutURLs)
      allowedOAuthFlowsMatching ==
        isArraysEqual(appClientWeb.AllowedOAuthFlows, appClientNative.AllowedOAuthFlows)
      allowedOAuthScopesMatching ==
        isArraysEqual(appClientWeb.AllowedOAuthScopes, appClientNative.AllowedOAuthScopes)
      allowedOAuthFlowsUserPoolClientMatching ==
        appClientWeb.AllowedOAuthFlowsUserPoolClient
          = appClientNative.AllowedOAuthFlowsUserPoolClient
      supportedIdentityProvidersMatching ==
        isArraysEqual(appClientWeb.SupportedIdentityProviders,
                      appClientNative.SupportedIdentityProviders)
      propertiesMatching ==
        /\ supportedIdentityProvidersMatching
        /\ callbackUrlMatching
        /\ logoutUrlsMatching
        /\ allowedOAuthFlowsMatching
        /\ allowedOAuthScopesMatching
        /\ allowedOAuthFlowsUserPoolClientMatching
      table(title, webValues, nativeValues) ==
        <<showValidationTable(title, appClientWeb, appClientNative, webValues, nativeValues)>>
      tables ==
        (IF ~supportedIdentityProvidersMatching
         THEN table("Configured Identity Providers:",
                    appClientWeb.SupportedIdentityProviders,
                    appClientNative.SupportedIdentityProviders)
         ELSE <<>>)
        \o (IF ~allowedOAuthFlowsUserPoolClientMatching
            THEN table("OAuth Flow Enabled for Application Client:",
                       <<flagToString(appClientWeb.AllowedOAuthFlowsUserPoolClient)>>,
                       <<flagToString(appClientNative.AllowedOAuthFlowsUserPoolClient)>>)
            ELSE <<>>)
        \o (IF ~callbackUrlMatching
            THEN table("Callback URLs:", appClientWeb.CallbackURLs, appClientNative.CallbackURLs)
            ELSE <<>>)
        \o (IF ~logoutUrlsMatching
            THEN table("Logout URLs:", appClientWeb.LogoutURLs, appClientNative.LogoutURLs)
            ELSE <<>>)
        \o (IF ~allowedOAuthFlowsMatching
            THEN table("Allowed OAuth Flows:",
                       appClientWeb.AllowedOAuthFlows, appClientNative.AllowedOAuthFlows)
            ELSE <<>>)
        \o (IF ~allowedOAuthScopesMatching
            THEN table("Allowed OAuth Scopes:",
                       appClientWeb.AllowedOAuthScopes, appClientNative.AllowedOAuthScopes)
            ELSE <<>>)
  IN IF ~propertiesMatching
     THEN [ isValid |-> FALSE, oauthProviders |-> NoList,
            oauthProperties |-> NoObject, tables |-> tables ]
     ELSE IF isEmpty(appClientWeb.SupportedIdentityProviders)
     THEN [ isValid |-> TRUE, oauthProviders |-> NoList,
            oauthProperties |-> NoObject, tables |-> <<>> ]
     ELSE [ isValid |-> TRUE,
            oauthProviders |-> filteredProviders(appClientWeb.SupportedIdentityProviders),
            oauthProperties |-> oauthPropertiesOf(appClientWeb),
            tables |-> <<>> ]

(***************************************************************************)
(* import.ts: eligibility of a user pool and selection of its app clients. *)
(***************************************************************************)
AppClientValidation ==
  "The selected Cognito User Pool does not have at least 1 web and 1 native application client configured."

\* (variant: every client counts as a web client)
everyClientIsWeb(c) == TRUE

\* (variant: every client counts as a native client)
everyClientIsNative(c) == TRUE

\* `!c.ClientSecret`
isWebClient(c) == c.ClientSecret = NoValue \/ c.ClientSecret = ""
\* `c.ClientSecret !== undefined`
isNativeClient(c) == c.ClientSecret # NoValue

\* (variant: the pool is accepted whatever its clients)
acceptUserPool(userPoolClients, parameters) ==
  [ result |-> "true",
    parameters |->
      [ parameters EXCEPT
          !.webClients = IF Len(@) = 0 THEN @ \o SelectSeq(userPoolClients, isWebClient) ELSE @,
          !.nativeClients =
            IF Len(@) = 0 THEN @ \o SelectSeq(userPoolClients, isNativeClient) ELSE @ ] ]

\* (variant: the clients are saved into the parameters before the verdict)
validateUserPoolSavingFirst(userPoolClients, parameters) ==
  LET webClients == SelectSeq(userPoolClients, isWebClient)
      nativeClients == SelectSeq(userPoolClients, isNativeClient)
      saved == [ parameters EXCEPT
                   !.webClients = IF Len(@) = 0 THEN @ \o webClients ELSE @,
                   !.nativeClients = IF Len(@) = 0 THEN @ \o nativeClients ELSE @ ]
  IN IF Len(webClients) < 1 \/ Len(nativeClients) < 1
     THEN [ result |-> AppClientValidation, parameters |-> saved ]
     ELSE [ result |-> "true", parameters |-> saved ]

\* The verdict ("true" or the message) and the parameters as the call leaves them.
validateUserPool(userPoolClients, parameters) ==
  LET webClients == SelectSeq(userPoolClients, isWebClient)
      nativeClients == SelectSeq(userPoolClients, isNativeClient)
  IN IF Len(webClients) < 1 \/ Len(nativeClients) < 1
     THEN [ result |-> AppClientValidation, parameters |-> parameters ]
     ELSE [ result |-> "true",
            parameters |->
              [ parameters EXCEPT
                  !.webClients = IF Len(@) = 0 THEN @ \o webClients ELSE @,
                  !.nativeClients = IF Len(@) = 0 THEN @ \o nativeClients ELSE @ ] ]

\* Order of String.prototype.localeCompare on the names and ids of the model
\* (lower-case ASCII words, none a prefix of another).
LocaleOrder == << "alpha", "beta", "delta", "gamma", "mid", "p1", "p2", "p3", "zeta" >>

LocaleRank(s) == CHOOSE i \in 1..Len(LocaleOrder) : LocaleOrder[i] = s

\* A choice label `${name} (${id})`, kept as its two parts; an id is a string
\* (a pool) or a pool and a position (a client).
labelBefore(a, b) ==
  \/ LocaleRank(a.name) < LocaleRank(b.name)
  \/ /\ a.name = b.name
     /\ \/ LocaleRank(a.id[1]) < LocaleRank(b.id[1])
        \/ a.id[1] = b.id[1] /\ Len(a.id) = 2 /\ Len(b.id) = 2 /\ a.id[2] < b.id[2]

RECURSIVE InsertChoice(_, _)
InsertChoice(sortedSeq, x) ==
  IF sortedSeq = <<>> THEN <<x>>
  ELSE IF labelBefore(x.message, Head(sortedSeq).message) THEN <<x>> \o sortedSeq
  ELSE <<Head(sortedSeq)>> \o InsertChoice(Tail(sortedSeq), x)

\* (variant: the choices stay in listing order)
unsortedChoices(xs) == xs

\* choices.sort((a, b) => a.message.localeCompare(b.message)); the sort is stable
RECURSIVE sortChoices(_)
sortChoices(xs) ==
  IF xs = <<>> THEN <<>>
  ELSE InsertChoice(sortChoices(SubSeq(xs, 1, Len(xs) - 1)), xs[Len(xs)])

appClientChoices(clients) ==
  sortChoices([i \in 1..Len(clients) |->
                 [ message |-> [name |-> clients[i].ClientName, id |-> clients[i].ClientId],
                   value |-> clients[i].ClientId ]])

\* (variant: the first client of the list, whatever its id)
firstClient(clients, clientId) == IF Len(clients) > 0 THEN clients[1] ELSE NoObject

\* Array.prototype.find on ClientId
findClient(clients, clientId) ==
  IF \E i \in 1..Len(clients) : clients[i].ClientId = clientId
  THEN clients[CHOOSE i \in 1..Len(clients) :
                 /\ clients[i].ClientId = clientId
                 /\ \A j \in 1..(i - 1) : clients[j].ClientId # clientId]
  ELSE NoObject

\* import.ts 282-309: the web client, the only one or the one the operator
\* picked (appClientWebId is read only when the question was asked)
selectWebClient(questionParameters, answers, appClientWebId) ==
  [ answers EXCEPT
      !.appClientWeb =
        IF Len(questionParameters.webClients) = 1 THEN questionParameters.webClients[1]
        ELSE findClient(questionParameters.webClients, appClientWebId) ]

\* import.ts 312-339: the native client, likewise
selectNativeClient(questionParameters, answers, appClientNativeId) ==
  [ answers EXCEPT
      !.appClientNative =
        IF Len(questionParameters.nativeClients) = 1 THEN questionParameters.nativeClients[1]
        ELSE findClient(questionParameters.nativeClients, appClientNativeId) ]

\* import.ts 279, 287, 317, 341: `autoSelected === 2`
bothAutoSelected(questionParameters) ==
  [ questionParameters EXCEPT
      !.bothAppClientsWereAutoSelected =
        IF (IF Len(questionParameters.webClients) = 1 THEN 1 ELSE 0)
           + (IF Len(questionParameters.nativeClients) = 1 THEN 1 ELSE 0) = 2
        THEN "true" ELSE "false" ]

\* The answers and parameters after one call; appClientWebId and
\* appClientNativeId are the operator's answers, read only when asked.
selectAppClients(questionParameters, answers, appClientWebId, appClientNativeId) ==
  [ answers |->
      selectNativeClient(questionParameters,
                         selectWebClient(questionParameters, answers, appClientWebId),
                         appClientNativeId),
    questionParameters |-> bothAutoSelected(questionParameters),
    questions |->
      (IF Len(questionParameters.webClients) = 1 THEN <<>>
       ELSE << [ name |-> "appClientWebId",
                 choices |-> appClientChoices(questionParameters.webClients) ] >>)
      \o (IF Len(questionParameters.nativeClients) = 1 THEN <<>>
          ELSE << [ name |-> "appClientNativeId",
                    choices |-> appClientChoices(questionParameters.nativeClients) ] >>) ]

(***************************************************************************)
(* import.ts: the outputs built from the answers.                          *)
(***************************************************************************)
\* (variant: the bindings are fetched whenever a provider list was stored)
oauthProvidersStored(answers) == answers.oauthProviders # NoList

\* import.ts 226, 689: `answers.oauthProviders && answers.oauthProviders.length > 0`,
\* the test before listUserPoolIdentityProviders
oauthProvidersSelected(answers) ==
  answers.oauthProviders # NoList /\ Len(answers.oauthProviders) > 0

\* updateStateFiles, lines 516-527
hasOAuthConfigOnImport(answers) ==
  /\ answers.oauthProviders # NoList
  /\ Len(answers.oauthProviders) > 0
  /\ answers.oauthProperties # NoObject
  /\ answers.oauthProperties.allowedOAuthFlows # NoList
  /\ Len(answers.oauthProperties.allowedOAuthFlows) > 0
  /\ answers.oauthProperties.allowedOAuthScopes # NoList
  /\ Len(answers.oauthProperties.allowedOAuthScopes) > 0
  /\ answers.oauthProperties.callbackURLs # NoList
  /\ Len(answers.oauthProperties.callbackURLs) > 0
  /\ answers.oauthProperties.logoutURLs # NoList
  /\ Len(answers.oauthProperties.logoutURLs) > 0

\* (variant: the logout URLs are not looked at)
hasOAuthConfigWithoutLogoutURLs(answers) ==
  /\ answers.oauthProviders # NoList
  /\ Len(answers.oauthProviders) > 0
  /\ answers.oauthProperties # NoObject
  /\ answers.oauthProperties.allowedOAuthFlows # NoList
  /\ Len(answers.oauthProperties.allowedOAuthFlows) > 0
  /\ answers.oauthProperties.allowedOAuthScopes # NoList
  /\ Len(answers.oauthProperties.allowedOAuthScopes) > 0
  /\ answers.oauthProperties.callbackURLs # NoList
  /\ Len(answers.oauthProperties.callbackURLs) > 0

\* createFullOutputFromPartialOutput, lines 693-704
hasOAuthConfigOnRehydrate(answers) ==
  /\ answers.oauthProviders # NoList
  /\ Len(answers.oauthProviders) > 0
  /\ answers.oauthProperties # NoObject
  /\ answers.oauthProperties.allowedOAuthFlows # NoList
  /\ Len(answers.oauthProperties.allowedOAuthFlows) > 0
  /\ answers.oauthProperties.allowedOAuthScopes # NoList
  /\ Len(answers.oauthProperties.allowedOAuthScopes) > 0
  /\ answers.oauthProperties.callbackURLs # NoList
  /\ Len(answers.oauthProperties.callbackURLs) > 0
  /\ answers.oauthProperties.logoutURLs # NoList
  /\ Len(answers.oauthProperties.logoutURLs) > 0

\* `answers.mfaConfiguration?.SmsMfaConfiguration?.SmsConfiguration`
smsConfigurationOf(mfaConfiguration) ==
  IF mfaConfiguration = NoObject THEN NoObject
  ELSE IF mfaConfiguration.SmsMfaConfiguration = NoObject THEN NoObject
  ELSE mfaConfiguration.SmsMfaConfiguration.SmsConfiguration

\* JSON.stringify of the metadata record: the record itself, tagged
oauthMetadataOf(oauthProperties) ==
  [ json |-> "OAuthMetadata",
    AllowedOAuthFlows |-> oauthProperties.allowedOAuthFlows,
    AllowedOAuthScopes |-> oauthProperties.allowedOAuthScopes,
    CallbackURLs |-> oauthProperties.callbackURLs,
    LogoutURLs |-> oauthProperties.logoutURLs ]

\* An output is a function from its keys to their values.
createFullAuthOutputFromAnswers(answers, hasOAuthConfig) ==
  LET userPool == answers.userPool
      smsConfiguration == smsConfigurationOf(answers.mfaConfiguration)
  IN ("UserPoolId" :> userPool.Id)
     @@ ("UserPoolName" :> userPool.Name)
     @@ ("AppClientID" :> answers.appClientNative.ClientId)
     @@ ("AppClientSecret" :> answers.appClientNative.ClientSecret)
     @@ ("AppClientIDWeb" :> answers.appClientWeb.ClientId)
     @@ ("HostedUIDomain" :> userPool.Domain)
     @@ (IF userPool.MfaConfiguration # "OFF" /\ smsConfiguration # NoObject
         THEN "CreatedSNSRole" :> smsConfiguration.SnsCallerArn
         ELSE << >>)
     @@ (IF hasOAuthConfig
         THEN "OAuthMetadata" :> oauthMetadataOf(answers.oauthProperties)
         ELSE << >>)

\* (variant: the native client id taken from the web client)
reducedOutputWithWebIdTwice(answers) ==
  ("UserPoolId" :> answers.userPool.Id)
  @@ ("UserPoolName" :> answers.userPool.Name)
  @@ ("AppClientID" :> answers.appClientWeb.ClientId)
  @@ ("AppClientIDWeb" :> answers.appClientWeb.ClientId)

createReducedAuthOutputFromAnswers(answers) ==
  ("UserPoolId" :> answers.userPool.Id)
  @@ ("UserPoolName" :> answers.userPool.Name)
  @@ ("AppClientID" :> answers.appClientNative.ClientId)
  @@ ("AppClientIDWeb" :> answers.appClientWeb.ClientId)

\* JSON.stringify of the credentials: the list itself
createOAuthCredentialsFromAnswers(answers) ==
  [ i \in 1..Len(answers.identityProviders) |->
      [ ProviderName |-> answers.identityProviders[i].ProviderName,
        client_id |-> answers.identityProviders[i].ProviderDetails.client_id,
        client_secret |-> answers.identityProviders[i].ProviderDetails.client_secret ] ]

NoCreds == <<NoObject>>

\* What updateStateFiles hands to the two writers.
updateStateFiles(answers) ==
  LET hasOAuthConfig == hasOAuthConfigOnImport(answers)
  IN [ meta |-> createFullAuthOutputFromAnswers(answers, hasOAuthConfig),
       backendConfig |-> createReducedAuthOutputFromAnswers(answers),
       hostedUIProviderCreds |->
         IF hasOAuthConfig THEN createOAuthCredentialsFromAnswers(answers) ELSE NoCreds ]

(***************************************************************************)
(* import.ts: createFullOutputFromPartialOutput, its locals and results.    *)
(* NotFound stands for a pool that getUserPoolDetails reports as missing    *)
(* (ResourceNotFoundException).                                             *)
(***************************************************************************)
NotFound == [notFound |-> TRUE]

NoAnswers ==
  [ userPoolId |-> NoValue, userPool |-> NoObject,
    appClientWeb |-> NoObject, appClientNative |-> NoObject,
    oauthProviders |-> NoList, oauthProperties |-> NoObject,
    mfaConfiguration |-> NoObject, identityProviders |-> <<NoObject>> ]

\* createParameters, given what listUserPools returns
createParameters(userPoolList) ==
  [ userPoolList |->
      sortChoices([i \in 1..Len(userPoolList) |->
                     [ message |-> [name |-> userPoolList[i].Name, id |-> <<userPoolList[i].Id>>],
                       value |-> userPoolList[i].Id ]]),
    webClients |-> <<>>,
    nativeClients |-> <<>>,
    bothAppClientsWereAutoSelected |-> NoValue ]

\* Where a call of createFullOutputFromPartialOutput stands: waiting for the
\* service, the pools, the detail of the pool, its clients, the verdict of
\* validateUserPool, the result of the matching step or the identity providers,
\* or settled.
RehydrationPcs ==
  { "rehydrate:service", "rehydrate:listUserPools", "rehydrate:userPoolDetails",
    "rehydrate:userPoolClients", "rehydrate:userPoolValidated", "rehydrate:matching",
    "rehydrate:identityProviders", "rehydrated" }

\* The locals of one call of createFullOutputFromPartialOutput and what the
\* call has done so far: the messages it printed, in order, the calls of
\* appClientsOAuthPropertiesMatching and of listUserPoolIdentityProviders it
\* made, and how it settled (error names what it threw, NoValue when nothing);
\* validationResult is what validateUserPool returned, NoValue before.
NoRehydration ==
  [ questionParameters |-> NoObject, answers |-> NoAnswers,
    validationResult |-> NoValue, oauthResult |-> NoObject,
    printed |-> <<>>, matchingCalls |-> 0, identityProviderCalls |-> 0,
    succeeded |-> FALSE, thrown |-> FALSE, error |-> NoValue,
    output |-> NoObject, hostedUIProviderCreds |-> NoCreds ]

\* (variant: a failed result that still carries what was recorded)
FailedWithRecordedIds(rehydration, partialOutput, messages) ==
  [ rehydration EXCEPT !.succeeded = FALSE, !.output = partialOutput,
                       !.hostedUIProviderCreds = NoCreds, !.printed = @ \o messages ]

\* import.ts 648-683: `return { succeeded: false }` after the messages were
\* printed
Failed(rehydration, partialOutput, messages) ==
  [ rehydration EXCEPT !.succeeded = FALSE, !.output = NoObject,
                       !.hostedUIProviderCreds = NoCreds, !.printed = @ \o messages ]

\* An awaited call rejects outside a handler that settles it, or the handler
\* of import.ts 636-643 throws the error again: the call rejects with it
Thrown(rehydration, errorName, messages) ==
  [ rehydration EXCEPT !.thrown = TRUE, !.error = errorName, !.printed = @ \o messages ]

\* import.ts 693-720: hasOAuthConfig, the full output, the credentials when
\* OAuth is configured, and the successful result
Succeeded(rehydration) ==
  LET hasOAuthConfig == hasOAuthConfigOnRehydrate(rehydration.answers)
  IN [ rehydration EXCEPT
         !.succeeded = TRUE,
         !.output = createFullAuthOutputFromAnswers(rehydration.answers, hasOAuthConfig),
         !.hostedUIProviderCreds =
           IF hasOAuthConfig THEN createOAuthCredentialsFromAnswers(rehydration.answers)
           ELSE NoCreds ]

(***************************************************************************)
(* The remote account.                                                     *)
(***************************************************************************)
PoolIds == <<"p1", "p2", "p3">>
PoolNames == <<"zeta", "alpha", "mid">>
PoolDomains == <<"auth-domain", NoValue, "auth-domain">>
ClientNames == <<"gamma", "alpha", "beta", "delta">>

\* What listUserPools returns for an account of n pools.
UserPoolListing(n) == [i \in 1..n |-> [Id |-> PoolIds[i], Name |-> PoolNames[i]]]

PoolIndex(poolId) == CHOOSE i \in 1..Len(PoolIds) : PoolIds[i] = poolId

\* What describeUserPool may return for a pool.
PoolDetails(poolId) ==
  { [ Id |-> poolId, Name |-> PoolNames[PoolIndex(poolId)],
      Domain |-> PoolDomains[PoolIndex(poolId)], MfaConfiguration |-> m ] :
      m \in {"OFF", "ON"} }

\* What a read that throws leaves in `remote`.
Throws == [throws |-> TRUE]

\* The OAuth settings one app client may carry.
NoOAuth ==
  [ SupportedIdentityProviders |-> NoList, CallbackURLs |-> NoList, LogoutURLs |-> NoList,
    AllowedOAuthFlows |-> NoList, AllowedOAuthScopes |-> NoList,
    AllowedOAuthFlowsUserPoolClient |-> NoValue ]
GoogleOAuth ==
  [ SupportedIdentityProviders |-> <<"Google", "COGNITO">>,
    CallbackURLs |-> <<"https://b/", "https://a/">>, LogoutURLs |-> <<"https://a/">>,
    AllowedOAuthFlows |-> <<"code">>, AllowedOAuthScopes |-> <<"openid", "email">>,
    AllowedOAuthFlowsUserPoolClient |-> "true" ]
AppleOAuth ==
  [ SupportedIdentityProviders |-> <<"SignInWithApple">>,
    CallbackURLs |-> <<"https://b/", "https://a/">>, LogoutURLs |-> <<"https://a/">>,
    AllowedOAuthFlows |-> <<"code">>, AllowedOAuthScopes |-> <<"openid", "email">>,
    AllowedOAuthFlowsUserPoolClient |-> "true" ]
OAuthSettings == {NoOAuth, GoogleOAuth, AppleOAuth}

\* What a described client may look like: its ClientSecret and its OAuth
\* settings.  The service issues no empty secret; the type of the field admits
\* one, and AnySecretShapes has it.
IssuedShapes == {NoValue, "s3cr3t"} \X OAuthSettings
AnySecretShapes == {NoValue, "", "s3cr3t"} \X {NoOAuth}

UserPoolClient(poolId, i, secret, oauth) ==
  [ ClientId |-> <<poolId, i>>, ClientName |-> ClientNames[i], ClientSecret |-> secret,
    SupportedIdentityProviders |-> oauth.SupportedIdentityProviders,
    CallbackURLs |-> oauth.CallbackURLs, LogoutURLs |-> oauth.LogoutURLs,
    AllowedOAuthFlows |-> oauth.AllowedOAuthFlows,
    AllowedOAuthScopes |-> oauth.AllowedOAuthScopes,
    AllowedOAuthFlowsUserPoolClient |-> oauth.AllowedOAuthFlowsUserPoolClient ]

\* What listUserPoolClients may return for a pool: up to MaxClients clients.
UserPoolClientLists(poolId, shapes) ==
  UNION { { [i \in 1..n |-> UserPoolClient(poolId, i, shape[i][1], shape[i][2])] :
              shape \in [1..n -> shapes] } : n \in 0..MaxClients }

IdentityProvider(name) ==
  [ ProviderName |-> name,
    ProviderDetails |-> [client_id |-> <<name, "id">>, client_secret |-> <<name, "secret">>] ]

\* What listUserPoolIdentityProviders may return for a pool.
IdentityProviderLists ==
  { <<IdentityProvider("Google")>>,
    <<IdentityProvider("Facebook"), IdentityProvider("Google")>> }

(***************************************************************************)
(* importResourceCore as a state machine, followed by one call of          *)
(* createFullOutputFromPartialOutput on what the session persisted.        *)
(*                                                                         *)
(* The remote account is read through the Cognito service.  What the       *)
(* listing of pools returns is fixed from the start; the clients, the      *)
(* detail and the identity providers of the selected pool are recorded in  *)
(* `remote` when they are first read, and a later read in the same run is  *)
(* answered alike; the read of the multi-factor configuration only throws. *)
(***************************************************************************)
VARIABLES
  pc,                  \* where the session stands: "start", "userPool", "userPoolValidation",
                       \* "userPoolValidated", "userPoolDetails",
                       \* "appClients", "webQuestion", "nativeQuestion", "compare",
                       \* "mismatch", "finish", "identityProviders", "write", "written",
                       \* "done", "threw", then one of RehydrationPcs ("idle" when there
                       \* is no session)
  clientShapes,        \* remote: what a client of the account may look like
  userPools,           \* remote: what listUserPools returns
  remote,              \* remote: the selected pool as read so far
  questionParameters,  \* ImportParameters
  answers,             \* ImportAnswers
  importSucceeded,     \* the local of importResourceCore
  attempt,             \* passes through the do-while loop so far
  lastAttempt,         \* what the last pass selected and decided
  printed,             \* kinds of message handed to context.print
  asked,               \* questions handed to enquirer.prompt, per name
  rejected,            \* the pool the open directory question has just rejected
  submitted,           \* the pool the operator submitted to the directory question,
                       \* NoValue when none is being validated or awaits the prompt
  persisted,           \* what updateStateFiles wrote, NoObject before
  writes,              \* calls of updateamplifyMetaAfterResourceAdd
  rehydrated           \* the call of createFullOutputFromPartialOutput, NoObject before

\* pagedAWSCall
VARIABLES
  pagedPc,     \* "idle", "call", "await", "return", "returned", "threw"
  listing,     \* remote: the pages of the listing
  response,    \* the local `response`, NoObject while undefined
  result,      \* the local `result`
  requests     \* the requests issued so far, in order

pagedVars == << pagedPc, listing, response, result, requests >>

\* the matching step on its own
VARIABLES
  matchPc,      \* "idle", "match", "matched"
  matchWeb,     \* the web client handed to the matching step
  matchNative,  \* the native client handed to the matching step
  matchResult   \* what the matching step returned, NoObject before

matchVars == << matchPc, matchWeb, matchNative, matchResult >>

\* CognitoUserPoolService: one instance and the calls made on it
VARIABLES
  remotePools,        \* remote: the pools the listing operation reports
  cachedUserPoolIds,  \* the field `cachedUserPoolIds` of the instance
  calls,              \* the calls of listUserPools, per caller
  remoteItems,        \* remote: the clients and identity providers of the pool
  batch,              \* the running call of listUserPoolClients / ...IdentityProviders
  returns,            \* calls of the two listing methods that ended, per outcome
  apiRequests         \* requests sent to the Cognito API, per operation

facadeVars ==
  << remotePools, cachedUserPoolIds, calls, remoteItems, batch, returns, apiRequests >>

sessionVars ==
  << pc, clientShapes, userPools, remote, questionParameters, answers, importSucceeded, attempt,
     lastAttempt, printed, asked, rejected, submitted, persisted, writes, rehydrated >>

Unread == [unread |-> TRUE]

NoRemote ==
  [ poolId |-> NoValue, clients |-> <<>>, detail |-> NoObject,
    mfa |-> Unread, identityProviders |-> <<Unread>> ]

NoAttempt ==
  [ appClientWeb |-> NoObject, appClientNative |-> NoObject, branch |-> "none",
    bothAppClientsWereAutoSelected |-> NoValue, tables |-> <<>> ]

InitSession(shapes) ==
  /\ pc = "start"
  /\ clientShapes = shapes
  /\ userPools \in {UserPoolListing(n) : n \in 0..MaxPools}
  /\ remote = NoRemote
  /\ questionParameters = createParameters(<<>>)
  /\ answers = NoAnswers
  /\ importSucceeded = FALSE
  /\ attempt = 0
  /\ lastAttempt = NoAttempt
  /\ printed = {}
  /\ asked = [userPoolId |-> 0, appClientWebId |-> 0, appClientNativeId |-> 0]
  /\ rejected = NoValue
  /\ submitted = NoValue
  /\ persisted = NoObject
  /\ writes = 0
  /\ rehydrated = NoObject

\* (variant: the listing is never taken for empty)
someUserPoolsFound(parameters) == FALSE

\* import.ts 106: `_.isEmpty(questionParameters.userPoolList)`
noUserPoolsFound(parameters) == Len(parameters.userPoolList) = 0

\* import.ts 102-162: createParameters; the return when no pool is listed;
\* with one pool validateUserPool is called and lists its clients, with
\* several the directory question is put
Start ==
  /\ UNCHANGED << pagedVars, matchVars, facadeVars >>
  /\ pc = "start"
  /\ questionParameters' = createParameters(userPools)
  /\ IF noUserPoolsFound(questionParameters')
     THEN /\ printed' = printed \cup {"NoPoolsInRegion"}
          /\ pc' = "done"
          /\ asked' = asked
     ELSE /\ printed' = printed
          /\ pc' = "userPool"
          /\ asked' = IF Len(questionParameters'.userPoolList) = 1 THEN asked
                      ELSE [asked EXCEPT !.userPoolId = @ + 1]
  /\ UNCHANGED << clientShapes, userPools, remote, answers, importSucceeded, attempt, lastAttempt,
                  rejected, submitted, persisted, writes, rehydrated >>

\* import.ts 132-143, 253-270: one pool only; its clients arrive and
\* validateUserPool gives its verdict: the message, reported before the
\* session returns, or true, the clients being saved into the parameters
SinglePool ==
  /\ UNCHANGED << pagedVars, matchVars, facadeVars >>
  /\ pc = "userPool"
  /\ Len(questionParameters.userPoolList) = 1
  /\ LET poolId == questionParameters.userPoolList[1].value
     IN \E clients \in UserPoolClientLists(poolId, clientShapes) :
          LET validation == validateUserPool(clients, questionParameters)
          IN IF validation.result # "true"
             THEN /\ printed' = printed \cup {"OnePoolNotValid", validation.result}
                  /\ pc' = "done"
                  /\ questionParameters' = validation.parameters
                  /\ UNCHANGED remote
             ELSE /\ questionParameters' = validation.parameters
                  /\ remote' = [remote EXCEPT !.poolId = poolId, !.clients = clients]
                  /\ pc' = "userPoolValidated"
                  /\ printed' = printed
  /\ UNCHANGED << clientShapes, userPools, answers, importSucceeded, attempt, lastAttempt, asked,
                  rejected, submitted, persisted, writes, rehydrated >>

\* import.ts 132, 253: listUserPoolClients rejects, validateUserPool and
\* importResourceCore with it
SinglePoolRejects ==
  /\ UNCHANGED << pagedVars, matchVars, facadeVars >>
  /\ pc = "userPool"
  /\ Len(questionParameters.userPoolList) = 1
  /\ pc' = "threw"
  /\ UNCHANGED << clientShapes, userPools, remote, questionParameters, answers, importSucceeded,
                  attempt, lastAttempt, printed, asked, rejected, submitted, persisted, writes,
                  rehydrated >>

\* import.ts 146: importResourceCore resumes after the validation and
\* preselects the pool; it then waits for the detail of the pool
PreselectUserPool ==
  /\ UNCHANGED << pagedVars, matchVars, facadeVars >>
  /\ pc = "userPoolValidated"
  /\ Len(questionParameters.userPoolList) = 1
  /\ answers' = [answers EXCEPT !.userPoolId = questionParameters.userPoolList[1].value]
  /\ pc' = "userPoolDetails"
  /\ UNCHANGED << clientShapes, userPools, remote, questionParameters, importSucceeded, attempt,
                  lastAttempt, printed, asked, rejected, submitted, persisted, writes,
                  rehydrated >>

\* import.ts 157-158, 253: the operator submits one of the listed pools; the
\* question's validate calls validateUserPool, which lists the pool's clients
SubmitUserPool ==
  /\ UNCHANGED << pagedVars, matchVars, facadeVars >>
  /\ pc = "userPool"
  /\ Len(questionParameters.userPoolList) # 1
  /\ \E i \in 1..Len(questionParameters.userPoolList) :
       submitted' = questionParameters.userPoolList[i].value
  /\ pc' = "userPoolValidation"
  /\ UNCHANGED << clientShapes, userPools, remote, questionParameters, answers, importSucceeded,
                  attempt, lastAttempt, printed, asked, rejected, persisted, writes, rehydrated >>

\* import.ts 158, 253-270: the clients of the submitted pool arrive and
\* validateUserPool gives its verdict: the message, on which the question
\* rejects the pool and stays open, or true, the clients being saved into the
\* parameters
ValidateSubmittedUserPool ==
  /\ UNCHANGED << pagedVars, matchVars, facadeVars >>
  /\ pc = "userPoolValidation"
  /\ \E clients \in UserPoolClientLists(submitted, clientShapes) :
       LET validation == validateUserPool(clients, questionParameters)
       IN IF validation.result # "true"
          THEN /\ rejected' = submitted
               /\ submitted' = NoValue
               /\ pc' = "userPool"
               /\ questionParameters' = validation.parameters
               /\ UNCHANGED remote
          ELSE /\ questionParameters' = validation.parameters
               /\ remote' = [remote EXCEPT !.poolId = submitted, !.clients = clients]
               /\ pc' = "userPoolValidated"
               /\ rejected' = NoValue
               /\ submitted' = submitted
  /\ UNCHANGED << clientShapes, userPools, answers, importSucceeded, attempt, lastAttempt, printed,
                  asked, persisted, writes, rehydrated >>

\* import.ts 162-163: the prompt resolves with the accepted pool, which goes
\* into the answers; the session then waits for the detail of the pool
UserPoolAnswered ==
  /\ UNCHANGED << pagedVars, matchVars, facadeVars >>
  /\ pc = "userPoolValidated"
  /\ Len(questionParameters.userPoolList) # 1
  /\ answers' = [answers EXCEPT !.userPoolId = submitted]
  /\ submitted' = NoValue
  /\ pc' = "userPoolDetails"
  /\ UNCHANGED << clientShapes, userPools, remote, questionParameters, importSucceeded, attempt,
                  lastAttempt, printed, asked, rejected, persisted, writes, rehydrated >>

\* import.ts 147, 164: the detail of the chosen pool arrives
GetUserPoolDetails ==
  /\ UNCHANGED << pagedVars, matchVars, facadeVars >>
  /\ pc = "userPoolDetails"
  /\ \E detail \in PoolDetails(answers.userPoolId) :
       /\ answers' = [answers EXCEPT !.userPool = detail]
       /\ remote' = [remote EXCEPT !.detail = detail]
  /\ pc' = "appClients"
  /\ UNCHANGED << clientShapes, userPools, questionParameters, importSucceeded, attempt,
                  lastAttempt, printed, asked, rejected, submitted, persisted, writes, rehydrated >>

\* import.ts 147, 164: getUserPoolDetails rejects, and importResourceCore with it
GetUserPoolDetailsRejects ==
  /\ UNCHANGED << pagedVars, matchVars, facadeVars >>
  /\ pc = "userPoolDetails"
  /\ pc' = "threw"
  /\ UNCHANGED << clientShapes, userPools, remote, questionParameters, answers, importSucceeded,
                  attempt, lastAttempt, printed, asked, rejected, submitted, persisted, writes, rehydrated >>

NoId == <<NoValue>>

\* The answers the operator can give to a client question: one of the choices.
ClientAnswers(clients) ==
  IF Len(clients) = 1 THEN {NoId} ELSE {clients[i].ClientId : i \in 1..Len(clients)}

\* import.ts 312-341: selectAppClients from the native role on, the web client
\* being selected: the only native client is taken and the call returns, or
\* the native question is put
SelectNativeClient(withWeb, printedSoFar) ==
  IF Len(questionParameters.nativeClients) = 1
  THEN /\ answers' = selectNativeClient(questionParameters, withWeb, NoId)
       /\ printed' = printedSoFar \cup {"SingleAppClientSelected(Native)"}
       /\ questionParameters' = bothAutoSelected(questionParameters)
       /\ asked' = asked
       /\ pc' = "compare"
  ELSE /\ answers' = withWeb
       /\ printed' = printedSoFar \cup {"MultipleAppClients(Native)"}
       /\ questionParameters' = questionParameters
       /\ asked' = [asked EXCEPT !.appClientNativeId = @ + 1]
       /\ pc' = "nativeQuestion"

\* import.ts 175, 279-306: selectAppClients is called; it runs until it returns
\* or puts a question
SelectAppClients ==
  /\ UNCHANGED << pagedVars, matchVars, facadeVars >>
  /\ pc = "appClients"
  /\ attempt < MaxAttempts
  /\ attempt' = attempt + 1
  /\ IF Len(questionParameters.webClients) = 1
     THEN SelectNativeClient(selectWebClient(questionParameters, answers, NoId),
                             printed \cup {"SingleAppClientSelected(Web)"})
     ELSE /\ printed' = printed \cup {"MultipleAppClients(Web)"}
          /\ asked' = [asked EXCEPT !.appClientWebId = @ + 1]
          /\ pc' = "webQuestion"
          /\ UNCHANGED << answers, questionParameters >>
  /\ UNCHANGED << clientShapes, userPools, remote, importSucceeded, lastAttempt, rejected, submitted,
                  persisted, writes, rehydrated >>

\* import.ts 306-339: the operator answers the web question
AnswerWebQuestion ==
  /\ UNCHANGED << pagedVars, matchVars, facadeVars >>
  /\ pc = "webQuestion"
  /\ \E appClientWebId \in ClientAnswers(questionParameters.webClients) :
       SelectNativeClient(selectWebClient(questionParameters, answers, appClientWebId), printed)
  /\ UNCHANGED << clientShapes, userPools, remote, importSucceeded, attempt, lastAttempt,
                  rejected, submitted, persisted, writes, rehydrated >>

\* import.ts 336-341: the operator answers the native question
AnswerNativeQuestion ==
  /\ UNCHANGED << pagedVars, matchVars, facadeVars >>
  /\ pc = "nativeQuestion"
  /\ \E appClientNativeId \in ClientAnswers(questionParameters.nativeClients) :
       answers' = selectNativeClient(questionParameters, answers, appClientNativeId)
  /\ questionParameters' = bothAutoSelected(questionParameters)
  /\ pc' = "compare"
  /\ UNCHANGED << clientShapes, userPools, remote, importSucceeded, attempt, lastAttempt, printed,
                  asked, rejected, submitted, persisted, writes, rehydrated >>

\* (variant: the branch that needs no OAuth comparison is never taken)
alwaysCompare(appClientWeb, appClientNative) == FALSE

\* import.ts 177: the test of the branch that needs no OAuth comparison
noOAuthConfigurationOnAppClients(appClientWeb, appClientNative) ==
  /\ isEmpty(appClientWeb.SupportedIdentityProviders)
  /\ isEmpty(appClientWeb.SupportedIdentityProviders)

\* (variant: the selections are kept)
keptAppClients(a) == a

\* import.ts 205-209: the selections reset after a mismatch
clearedAppClients(a) == [a EXCEPT !.appClientWeb = NoObject, !.appClientNative = NoObject]

\* (variant: a mismatch always ends the loop)
alwaysFinishedOnMismatch(parameters) == TRUE

\* (variant: a mismatch never ends the loop)
neverFinishedOnMismatch(parameters) == FALSE

\* (variant: a mismatch ends the loop unless both clients were auto-selected)
finishedUnlessBothAutoSelected(parameters) ==
  parameters.bothAppClientsWereAutoSelected # "true"

\* import.ts 196: whether a mismatch ends the loop
oauthLoopFinishedOnMismatch(parameters) == parameters.bothAppClientsWereAutoSelected = "true"

\* (variant: the session goes on to the write whether or not it succeeded)
alwaysWrites(succeeded) == "finish"

\* import.ts 214-217: the return when the loop ended without success
afterLoop(succeeded) == IF succeeded THEN "finish" ELSE "done"

\* import.ts 177-192, 344-468: the test of the pass, and the matching step,
\* which prints what does not match before it returns
Compare ==
  /\ UNCHANGED << pagedVars, matchVars, facadeVars >>
  /\ pc = "compare"
  /\ LET oauthResult ==
           appClientsOAuthPropertiesMatching(answers.appClientWeb, answers.appClientNative)
         thisAttempt ==
           [ appClientWeb |-> answers.appClientWeb,
             appClientNative |-> answers.appClientNative,
             branch |-> "none",
             bothAppClientsWereAutoSelected |->
               questionParameters.bothAppClientsWereAutoSelected,
             tables |-> <<>> ]
     IN IF noOAuthConfigurationOnAppClients(answers.appClientWeb, answers.appClientNative)
        THEN /\ printed' = printed \cup {"NoOAuthConfigurationOnAppClients"}
             /\ lastAttempt' = [thisAttempt EXCEPT !.branch = "trivial"]
             /\ importSucceeded' = TRUE
             /\ pc' = afterLoop(importSucceeded')
             /\ answers' = answers
        ELSE IF oauthResult.isValid
        THEN /\ answers' = [ answers EXCEPT
                               !.oauthProviders = oauthResult.oauthProviders,
                               !.oauthProperties = oauthResult.oauthProperties ]
             /\ lastAttempt' = [thisAttempt EXCEPT !.branch = "matched"]
             /\ importSucceeded' = TRUE
             /\ pc' = afterLoop(importSucceeded')
             /\ printed' = printed
        ELSE /\ lastAttempt' = [ thisAttempt EXCEPT !.branch = "mismatch",
                                                    !.tables = oauthResult.tables ]
             /\ printed' = printed \cup {"SomePropertiesAreNotMatching"}
             /\ pc' = "mismatch"
             /\ UNCHANGED << answers, importSucceeded >>
  /\ UNCHANGED << clientShapes, userPools, remote, questionParameters, attempt, asked, rejected, submitted,
                  persisted, writes, rehydrated >>

\* import.ts 193-217: importResourceCore resumes after a mismatch
ResetAppClients ==
  /\ UNCHANGED << pagedVars, matchVars, facadeVars >>
  /\ pc = "mismatch"
  /\ answers' = clearedAppClients(answers)
  /\ IF oauthLoopFinishedOnMismatch(questionParameters)
     THEN /\ pc' = afterLoop(importSucceeded)
          /\ printed' = printed
     ELSE /\ pc' = "appClients"
          /\ printed' = printed \cup {"SelectNewAppClients"}
  /\ UNCHANGED << clientShapes, userPools, remote, questionParameters, importSucceeded, attempt,
                  lastAttempt, asked, rejected, submitted, persisted, writes, rehydrated >>

\* import.ts 219-224: unless the pool has multi-factor authentication switched
\* off, getUserPoolMfaConfig is called on the service; CognitoUserPoolService
\* has no such method, so the call throws before anything is sent, the error is
\* swallowed and answers.mfaConfiguration stays undefined
GetUserPoolMfaConfig ==
  /\ UNCHANGED << pagedVars, matchVars, facadeVars >>
  /\ pc = "finish"
  /\ remote' = [remote EXCEPT !.mfa = IF answers.userPool.MfaConfiguration # "OFF"
                                      THEN Throws ELSE Unread]
  /\ pc' = "identityProviders"
  /\ UNCHANGED << clientShapes, userPools, questionParameters, answers, importSucceeded, attempt,
                  lastAttempt, printed, asked, rejected, submitted, persisted, writes, rehydrated >>

\* import.ts 226-228: the identity providers of the pool are listed when the
\* clients share providers
ListUserPoolIdentityProviders ==
  /\ UNCHANGED << pagedVars, matchVars, facadeVars >>
  /\ pc = "identityProviders"
  /\ \E identityProviders \in (IF oauthProvidersSelected(answers)
                               THEN IdentityProviderLists ELSE {<<Unread>>}) :
       /\ answers' = IF identityProviders # <<Unread>>
                     THEN [answers EXCEPT !.identityProviders = identityProviders]
                     ELSE answers
       /\ remote' = [remote EXCEPT !.identityProviders = identityProviders]
  /\ pc' = "write"
  /\ UNCHANGED << clientShapes, userPools, questionParameters, importSucceeded, attempt,
                  lastAttempt, printed, asked, rejected, submitted, persisted, writes, rehydrated >>

\* import.ts 227: listUserPoolIdentityProviders rejects, and importResourceCore
\* with it
ListUserPoolIdentityProvidersRejects ==
  /\ UNCHANGED << pagedVars, matchVars, facadeVars >>
  /\ pc = "identityProviders"
  /\ oauthProvidersSelected(answers)
  /\ pc' = "threw"
  /\ UNCHANGED << clientShapes, userPools, remote, questionParameters, answers, importSucceeded,
                  attempt, lastAttempt, printed, asked, rejected, submitted, persisted, writes, rehydrated >>

\* import.ts 231: updateStateFiles writes the state files
UpdateStateFiles ==
  /\ UNCHANGED << pagedVars, matchVars, facadeVars >>
  /\ pc = "write"
  /\ persisted' = updateStateFiles(answers)
  /\ writes' = writes + 1
  /\ pc' = "written"
  /\ UNCHANGED << clientShapes, userPools, remote, questionParameters, answers, importSucceeded,
                  attempt, lastAttempt, printed, asked, rejected, submitted, rehydrated >>

\* import.ts 233-243: the success message and the next steps
PrintSuccess ==
  /\ UNCHANGED << pagedVars, matchVars, facadeVars >>
  /\ pc = "written"
  /\ printed' = printed \cup {"UserPoolOnlySuccess", "NextSteps"}
  /\ pc' = "done"
  /\ UNCHANGED << clientShapes, userPools, remote, questionParameters, answers, importSucceeded,
                  attempt, lastAttempt, asked, rejected, submitted, persisted, writes, rehydrated >>

(***************************************************************************)
(* createFullOutputFromPartialOutput, called on the reduced output that was *)
(* recorded, one action per stretch of code between two waits.  A read of   *)
(* the account that the session of this run has made already is answered as *)
(* before; any other read is answered by whatever the account holds by then.*)
(***************************************************************************)
\* import.ts 614-622: the call begins and waits for the Cognito service
Rehydrate ==
  /\ UNCHANGED << pagedVars, matchVars, facadeVars >>
  /\ pc = "done"
  /\ persisted # NoObject
  /\ rehydrated' = NoRehydration
  /\ pc' = "rehydrate:service"
  /\ UNCHANGED << clientShapes, userPools, remote, questionParameters, answers, importSucceeded,
                  attempt, lastAttempt, printed, asked, rejected, submitted, persisted, writes >>

\* import.ts 622-623, 723-725: the service is there; createParameters calls
\* listUserPools and waits
RehydrateCreateParameters ==
  /\ UNCHANGED << pagedVars, matchVars, facadeVars >>
  /\ pc = "rehydrate:service"
  /\ pc' = "rehydrate:listUserPools"
  /\ UNCHANGED rehydrated
  /\ UNCHANGED << clientShapes, userPools, remote, questionParameters, answers, importSucceeded,
                  attempt, lastAttempt, printed, asked, rejected, submitted, persisted, writes >>

\* import.ts 725-740, 623-635: the pools are listed and the parameters built;
\* the recorded pool id goes into the answers and getUserPoolDetails is called
RehydrateListUserPools ==
  /\ UNCHANGED << pagedVars, matchVars, facadeVars >>
  /\ pc = "rehydrate:listUserPools"
  /\ rehydrated' =
       [ rehydrated EXCEPT
           !.questionParameters = createParameters(userPools),
           !.answers = [@ EXCEPT !.userPoolId = persisted.backendConfig["UserPoolId"]] ]
  /\ pc' = "rehydrate:userPoolDetails"
  /\ UNCHANGED << clientShapes, userPools, remote, questionParameters, answers, importSucceeded,
                  attempt, lastAttempt, printed, asked, rejected, submitted, persisted, writes >>

\* import.ts 725, 623: listUserPools rejects, and the call with it
RehydrateListUserPoolsRejects ==
  /\ UNCHANGED << pagedVars, matchVars, facadeVars >>
  /\ pc = "rehydrate:listUserPools"
  /\ rehydrated' = Thrown(rehydrated, "Error", <<>>)
  /\ pc' = "rehydrated"
  /\ UNCHANGED << clientShapes, userPools, remote, questionParameters, answers, importSucceeded,
                  attempt, lastAttempt, printed, asked, rejected, submitted, persisted, writes >>

\* import.ts 635, 646, 246-253: the detail of the pool arrives; validateUserPool
\* is called, lists the clients of the pool and waits
RehydrateGetUserPoolDetails ==
  /\ UNCHANGED << pagedVars, matchVars, facadeVars >>
  /\ pc = "rehydrate:userPoolDetails"
  /\ \E userPool \in (IF remote.poolId # NoValue THEN {remote.detail}
                      ELSE PoolDetails(rehydrated.answers.userPoolId)) :
       /\ rehydrated' = [rehydrated EXCEPT !.answers = [@ EXCEPT !.userPool = userPool]]
       /\ remote' = [remote EXCEPT !.detail = userPool]
  /\ pc' = "rehydrate:userPoolClients"
  /\ UNCHANGED << clientShapes, userPools, questionParameters, answers, importSucceeded,
                  attempt, lastAttempt, printed, asked, rejected, submitted, persisted, writes >>

\* import.ts 635-643: getUserPoolDetails rejects with ResourceNotFoundException;
\* the pool is reported as not found and the error is thrown again
RehydrateUserPoolNotFound ==
  /\ UNCHANGED << pagedVars, matchVars, facadeVars >>
  /\ pc = "rehydrate:userPoolDetails"
  /\ remote.poolId = NoValue
  /\ rehydrated' = Thrown(rehydrated, "ResourceNotFoundException", <<"UserPoolNotFound">>)
  /\ remote' = [remote EXCEPT !.detail = NotFound]
  /\ pc' = "rehydrated"
  /\ UNCHANGED << clientShapes, userPools, questionParameters, answers, importSucceeded,
                  attempt, lastAttempt, printed, asked, rejected, submitted, persisted, writes >>

\* import.ts 635-643: getUserPoolDetails rejects with another error, which is
\* thrown again with nothing printed
RehydrateGetUserPoolDetailsRejects ==
  /\ UNCHANGED << pagedVars, matchVars, facadeVars >>
  /\ pc = "rehydrate:userPoolDetails"
  /\ rehydrated' = Thrown(rehydrated, "Error", <<>>)
  /\ pc' = "rehydrated"
  /\ UNCHANGED << clientShapes, userPools, remote, questionParameters, answers, importSucceeded,
                  attempt, lastAttempt, printed, asked, rejected, submitted, persisted, writes >>

\* import.ts 253-271: the clients arrive; validateUserPool resumes, gives its
\* verdict, saves the clients of a pool that passes into the parameters and
\* returns; the caller has not resumed yet
RehydrateValidateUserPool ==
  /\ UNCHANGED << pagedVars, matchVars, facadeVars >>
  /\ pc = "rehydrate:userPoolClients"
  /\ \E userPoolClients \in (IF remote.poolId # NoValue THEN {remote.clients}
                             ELSE UserPoolClientLists(rehydrated.answers.userPoolId,
                                                      clientShapes)) :
       LET validation == validateUserPool(userPoolClients, rehydrated.questionParameters)
       IN /\ remote' = [ remote EXCEPT !.poolId = rehydrated.answers.userPoolId,
                                       !.clients = userPoolClients ]
          /\ rehydrated' = [ rehydrated EXCEPT !.questionParameters = validation.parameters,
                                               !.validationResult = validation.result ]
  /\ pc' = "rehydrate:userPoolValidated"
  /\ UNCHANGED << clientShapes, userPools, questionParameters, answers, importSucceeded,
                  attempt, lastAttempt, printed, asked, rejected, submitted, persisted, writes >>

\* import.ts 646-677: the call resumes with the verdict; a pool that fails is
\* reported; the two clients are looked up by the recorded ids and one that is
\* missing is reported; appClientsOAuthPropertiesMatching is called on the
\* two, prints what does not match, and the call waits for its result
RehydrateUserPoolValidated ==
  /\ UNCHANGED << pagedVars, matchVars, facadeVars >>
  /\ pc = "rehydrate:userPoolValidated"
  /\ LET partialOutput == persisted.backendConfig
         parameters == rehydrated.questionParameters
         appClientWeb == findClient(parameters.webClients, partialOutput["AppClientIDWeb"])
         withWeb == [rehydrated EXCEPT !.answers = [@ EXCEPT !.appClientWeb = appClientWeb]]
         appClientNative == findClient(parameters.nativeClients, partialOutput["AppClientID"])
         withNative ==
           [withWeb EXCEPT !.answers = [@ EXCEPT !.appClientNative = appClientNative]]
         oauthResult == appClientsOAuthPropertiesMatching(appClientWeb, appClientNative)
     IN IF rehydrated.validationResult # "true"
        THEN /\ rehydrated' = Failed(rehydrated, partialOutput,
                                     <<"UserPoolValidation", rehydrated.validationResult>>)
             /\ pc' = "rehydrated"
        ELSE IF appClientWeb = NoObject
        THEN /\ rehydrated' = Failed(withWeb, partialOutput, <<"AppClientNotFound Web">>)
             /\ pc' = "rehydrated"
        ELSE IF appClientNative = NoObject
        THEN /\ rehydrated' = Failed(withNative, partialOutput, <<"AppClientNotFound Native">>)
             /\ pc' = "rehydrated"
        ELSE /\ rehydrated' =
                  [ withNative EXCEPT
                      !.oauthResult = oauthResult,
                      !.matchingCalls = @ + 1,
                      !.printed = IF oauthResult.isValid THEN @
                                  ELSE @ \o <<"SomePropertiesAreNotMatching">> ]
             /\ pc' = "rehydrate:matching"
  /\ UNCHANGED << clientShapes, userPools, remote, questionParameters, answers, importSucceeded,
                  attempt, lastAttempt, printed, asked, rejected, submitted, persisted, writes >>

\* import.ts 253, 646: listUserPoolClients rejects, validateUserPool with it,
\* and the call with it
RehydrateListUserPoolClientsRejects ==
  /\ UNCHANGED << pagedVars, matchVars, facadeVars >>
  /\ pc = "rehydrate:userPoolClients"
  /\ rehydrated' = Thrown(rehydrated, "Error", <<>>)
  /\ pc' = "rehydrated"
  /\ UNCHANGED << clientShapes, userPools, remote, questionParameters, answers, importSucceeded,
                  attempt, lastAttempt, printed, asked, rejected, submitted, persisted, writes >>

\* import.ts 677-720: the result of the matching step is in; clients that do
\* not match end the call; else the accepted providers and properties are
\* stored, and the identity providers are listed when there are accepted
\* providers, the output being built at once when there are none
RehydrateMatched ==
  /\ UNCHANGED << pagedVars, matchVars, facadeVars >>
  /\ pc = "rehydrate:matching"
  /\ LET stored ==
           [ rehydrated EXCEPT
               !.answers = [@ EXCEPT !.oauthProviders = rehydrated.oauthResult.oauthProviders,
                                     !.oauthProperties = rehydrated.oauthResult.oauthProperties] ]
     IN IF ~rehydrated.oauthResult.isValid
        THEN /\ rehydrated' = Failed(rehydrated, persisted.backendConfig, <<>>)
             /\ pc' = "rehydrated"
        ELSE IF oauthProvidersSelected(stored.answers)
        THEN /\ rehydrated' = [stored EXCEPT !.identityProviderCalls = @ + 1]
             /\ pc' = "rehydrate:identityProviders"
        ELSE /\ rehydrated' = Succeeded(stored)
             /\ pc' = "rehydrated"
  /\ UNCHANGED << clientShapes, userPools, remote, questionParameters, answers, importSucceeded,
                  attempt, lastAttempt, printed, asked, rejected, submitted, persisted, writes >>

\* import.ts 690-720: the identity providers arrive; the output and, when
\* OAuth is configured, the credentials are built
RehydrateListUserPoolIdentityProviders ==
  /\ UNCHANGED << pagedVars, matchVars, facadeVars >>
  /\ pc = "rehydrate:identityProviders"
  /\ \E identityProviders \in (IF remote.identityProviders # <<Unread>>
                               THEN {remote.identityProviders}
                               ELSE IdentityProviderLists) :
       /\ rehydrated' =
            Succeeded([ rehydrated EXCEPT
                          !.answers = [@ EXCEPT !.identityProviders = identityProviders] ])
       /\ remote' = [remote EXCEPT !.identityProviders = identityProviders]
  /\ pc' = "rehydrated"
  /\ UNCHANGED << clientShapes, userPools, questionParameters, answers, importSucceeded,
                  attempt, lastAttempt, printed, asked, rejected, submitted, persisted, writes >>

\* import.ts 690: listUserPoolIdentityProviders rejects, and the call with it
RehydrateListUserPoolIdentityProvidersRejects ==
  /\ UNCHANGED << pagedVars, matchVars, facadeVars >>
  /\ pc = "rehydrate:identityProviders"
  /\ rehydrated' = Thrown(rehydrated, "Error", <<>>)
  /\ pc' = "rehydrated"
  /\ UNCHANGED << clientShapes, userPools, remote, questionParameters, answers, importSucceeded,
                  attempt, lastAttempt, printed, asked, rejected, submitted, persisted, writes >>

(***************************************************************************)
(* aws-utils.ts: pagedAWSCall against a listing of pages linked by cursors.*)
(***************************************************************************)
\* MaxResults of the fixed request parameters
MaxResults == 60

PageTokens == <<"t1", "t2", "t3", "t4", "t5">>
PageItems ==
  << <<"a1", "a2", "a3">>, <<"b1", "b2", "b3">>, <<"c1", "c2", "c3">>,
     <<"d1", "d2", "d3">>, <<"e1", "e2", "e3">> >>

\* What the accessor yields for page i: absent (n = -1), or the first n items.
PageItemList(i, n) == IF n = -1 THEN NoList ELSE SubSeq(PageItems[i], 1, n)

\* Listings of 1..MaxPages pages: page i < N carries the cursor PageTokens[i];
\* the last response carries no cursor, an empty cursor, or is absent itself.
Listings ==
  UNION { { [ i \in 1..n |->
                IF i = n /\ ending = "noResponse" THEN NoObject
                ELSE [ Items |-> PageItemList(i, sizes[i]),
                       NextToken |-> IF i < n THEN PageTokens[i]
                                     ELSE IF ending = "emptyToken" THEN "" ELSE NoValue ] ] :
              sizes \in [1..n -> -1..MaxPageItems],
              ending \in {"noToken", "emptyToken", "noResponse"} } : n \in 1..MaxPages }

\* What the listing operation answers to a request.
reply(pages, request) ==
  LET issued == { i \in 1..(Len(pages) - 1) :
                    pages[i] # NoObject /\ pages[i].NextToken = request.NextToken }
  IN IF request.NextToken = NoValue THEN pages[1]
     ELSE IF issued = {} THEN NoObject
     ELSE pages[(CHOOSE i \in issued : TRUE) + 1]

\* `!!response.NextToken`
hasNextToken(resp) == resp.NextToken # NoValue /\ resp.NextToken # ""

accessor(resp) == resp.Items

IdlePaged ==
  /\ pagedPc = "idle"
  /\ listing = <<>>
  /\ response = NoObject
  /\ result = <<>>
  /\ requests = <<>>

InitPaged ==
  /\ pagedPc = "call"
  /\ listing \in Listings
  /\ response = NoObject
  /\ result = <<>>
  /\ requests = <<>>

\* (variant: every request is the first request)
firstRequest(resp) == [MaxResults |-> MaxResults, NextToken |-> NoValue]

\* aws-utils.ts 17-20: the request of one pass
nextRequest(resp) ==
  [ MaxResults |-> MaxResults,
    NextToken |-> IF resp # NoObject THEN resp.NextToken ELSE NoValue ]

\* (variant: the page replaces what was collected)
lastPageOnly(acc, resp) ==
  IF resp # NoObject /\ accessor(resp) # NoList THEN accessor(resp) ELSE acc

\* aws-utils.ts 22-24
concatPage(acc, resp) ==
  IF resp # NoObject /\ accessor(resp) # NoList THEN acc \o accessor(resp) ELSE acc

\* (variant: the loop goes on while there is a response)
continueWhileResponse(resp) == resp # NoObject

\* (variant: the loop stops at a page without items)
continueWhileItems(resp) ==
  /\ resp # NoObject
  /\ hasNextToken(resp)
  /\ accessor(resp) # NoList
  /\ Len(accessor(resp)) > 0

\* aws-utils.ts 25
continuePaging(resp) == resp # NoObject /\ hasNextToken(resp)

(***************************************************************************)
(* The matching step on its own, on two clients drawn from OAuthClients.   *)
(***************************************************************************)
OAuthClients(name) ==
  { [ ClientId |-> <<"p1", 1>>, ClientName |-> name, ClientSecret |-> NoValue,
      SupportedIdentityProviders |-> providers, CallbackURLs |-> callbacks,
      LogoutURLs |-> logouts, AllowedOAuthFlows |-> flows,
      AllowedOAuthScopes |-> scopes, AllowedOAuthFlowsUserPoolClient |-> flag ] :
      providers \in { NoList, <<>>, <<"Google", "Facebook">>, <<"Facebook", "Google">>,
                      <<"SignInWithApple", "Google">> },
      callbacks \in { NoList, <<"https://a/", "https://b/">>, <<"https://b/", "https://a/">> },
      logouts \in { <<>>, <<"https://a/">> },
      flows \in { <<"code">>, <<"implicit", "code">> },
      scopes \in { <<"openid", "email">>, <<"email", "openid">> },
      flag \in { NoValue, "true" } }

IdleMatch ==
  /\ matchPc = "idle"
  /\ matchWeb = NoObject
  /\ matchNative = NoObject
  /\ matchResult = NoObject

InitMatch ==
  /\ matchPc = "match"
  /\ matchWeb \in OAuthClients("gamma")
  /\ matchNative \in OAuthClients("alpha")
  /\ matchResult = NoObject

IdleSession ==
  /\ pc = "idle"
  /\ clientShapes = {}
  /\ userPools = <<>>
  /\ remote = NoRemote
  /\ questionParameters = createParameters(<<>>)
  /\ answers = NoAnswers
  /\ importSucceeded = FALSE
  /\ attempt = 0
  /\ lastAttempt = NoAttempt
  /\ printed = {}
  /\ asked = [userPoolId |-> 0, appClientWebId |-> 0, appClientNativeId |-> 0]
  /\ rejected = NoValue
  /\ submitted = NoValue
  /\ persisted = NoObject
  /\ writes = 0
  /\ rehydrated = NoObject

\* OAuth settings whose lists may each be absent or empty, shared by the
\* clients of one pool.
OAuthVariants ==
  { [ SupportedIdentityProviders |-> providers, CallbackURLs |-> callbacks,
      LogoutURLs |-> logouts, AllowedOAuthFlows |-> flows,
      AllowedOAuthScopes |-> scopes, AllowedOAuthFlowsUserPoolClient |-> "true" ] :
      providers \in { NoList, <<"Google", "COGNITO">>, <<"SignInWithApple">> },
      callbacks \in { NoList, <<>>, <<"https://a/">> },
      logouts \in { <<>>, <<"https://a/">> },
      flows \in { NoList, <<"code">> },
      scopes \in { <<>>, <<"openid">> } }

\* An import session against one pool whose clients share one of OAuthVariants.
InitOutputs ==
  /\ \E oauth \in OAuthVariants : InitSession({<<NoValue, oauth>>, <<"s3cr3t", oauth>>})
  /\ Len(userPools) = 1

\* What an earlier session recorded in the backend configuration.
RecordedOutput ==
  ("UserPoolId" :> "p1")
  @@ ("UserPoolName" :> "zeta")
  @@ ("AppClientID" :> <<"p1", 2>>)
  @@ ("AppClientIDWeb" :> <<"p1", 1>>)

\* createFullOutputFromPartialOutput is called on RecordedOutput in a later
\* run, which has read nothing of the account yet: the pool may be gone by
\* then, and its clients may be any list.
InitRehydration ==
  /\ pc = "done"
  /\ clientShapes = IssuedShapes
  /\ userPools \in {UserPoolListing(n) : n \in 0..MaxPools}
  /\ remote = NoRemote
  /\ questionParameters = createParameters(<<>>)
  /\ answers = NoAnswers
  /\ importSucceeded = FALSE
  /\ attempt = 0
  /\ lastAttempt = NoAttempt
  /\ printed = {}
  /\ asked = [userPoolId |-> 0, appClientWebId |-> 0, appClientNativeId |-> 0]
  /\ rejected = NoValue
  /\ submitted = NoValue
  /\ persisted = [backendConfig |-> RecordedOutput]
  /\ writes = 0
  /\ rehydrated = NoObject

vars == << sessionVars, pagedVars, matchVars, facadeVars >>

\* aws-utils.ts 17-20: the loop body calls `action` with the parameters and
\* the cursor of the response before, and waits for the answer
CallAction ==
  /\ pagedPc = "call"
  /\ requests' = Append(requests, nextRequest(response))
  /\ pagedPc' = "await"
  /\ UNCHANGED << listing, response, result, sessionVars, matchVars, facadeVars >>

\* aws-utils.ts 17, 22-25: the answer arrives; it is assigned to `response`,
\* its items are collected and the loop condition is tested
ResponseArrives ==
  /\ pagedPc = "await"
  /\ LET resp == reply(listing, requests[Len(requests)])
     IN /\ response' = resp
        /\ result' = concatPage(result, resp)
        /\ pagedPc' = IF continuePaging(resp) THEN "call" ELSE "return"
  /\ UNCHANGED << listing, requests, sessionVars, matchVars, facadeVars >>

\* aws-utils.ts 17: the awaited promise rejects and pagedAWSCall rejects with
\* it; nothing was assigned
RequestRejected ==
  /\ pagedPc = "await"
  /\ pagedPc' = "threw"
  /\ UNCHANGED << listing, response, result, requests, sessionVars, matchVars, facadeVars >>

\* aws-utils.ts 27
Return ==
  /\ pagedPc = "return"
  /\ pagedPc' = "returned"
  /\ UNCHANGED << listing, response, result, requests, sessionVars, matchVars, facadeVars >>

\* One call of appClientsOAuthPropertiesMatching; on a mismatch it prints the
\* message (import.ts 374) and the tables before it returns
Match ==
  /\ matchPc = "match"
  /\ matchResult' = appClientsOAuthPropertiesMatching(matchWeb, matchNative)
  /\ printed' = IF matchResult'.isValid THEN printed
                ELSE printed \cup {"SomePropertiesAreNotMatching"}
  /\ matchPc' = "matched"
  /\ UNCHANGED << matchWeb, matchNative, pagedVars, facadeVars >>
  /\ UNCHANGED << pc, clientShapes, userPools, remote, questionParameters, answers,
                  importSucceeded, attempt, lastAttempt, asked, rejected, submitted, persisted,
                  writes, rehydrated >>

(***************************************************************************)
(* CognitoUserPoolService: calls on one instance.  A paged listing is one  *)
(* request series, counted as one request; every describe is one request.  *)
(***************************************************************************)
NoCall == [state |-> "idle", completedBefore |-> 0, issued |-> 0, value |-> <<>>]

NoDetails == <<NoObject>>

NoBatch ==
  [ kind |-> "none", state |-> "idle", items |-> <<>>, status |-> <<>>, order |-> <<>>,
    result |-> NoDetails, priorReturns |-> 0, issued |-> 0, describes |-> 0 ]

NoRequests == [listUserPools |-> 0, list |-> 0, describe |-> 0]

IdleFacade ==
  /\ remotePools = <<>>
  /\ cachedUserPoolIds = <<>>
  /\ calls = [i \in 1..MaxCalls |-> NoCall]
  /\ remoteItems = [clients |-> <<>>, providers |-> <<>>]
  /\ batch = NoBatch
  /\ returns = [clients |-> 0, providers |-> 0, failed |-> 0]
  /\ apiRequests = NoRequests

\* Calls of listUserPools on a fresh instance, against an account of 0..MaxPools pools.
InitListUserPools ==
  /\ remotePools \in {UserPoolListing(n) : n \in 0..MaxPools}
  /\ cachedUserPoolIds = <<>>
  /\ calls = [i \in 1..MaxCalls |-> NoCall]
  /\ remoteItems = [clients |-> <<>>, providers |-> <<>>]
  /\ batch = NoBatch
  /\ returns = [clients |-> 0, providers |-> 0, failed |-> 0]
  /\ apiRequests = NoRequests

ProviderNames == <<"Google", "Facebook", "LoginWithAmazon", "SignInWithApple">>

\* Calls of listUserPoolClients and listUserPoolIdentityProviders for pool "p1",
\* which holds 0..MaxClients clients and as many identity providers.
InitListItems ==
  /\ remotePools = UserPoolListing(1)
  /\ cachedUserPoolIds = <<>>
  /\ calls = [i \in 1..MaxCalls |-> NoCall]
  /\ \E n \in 0..MaxClients, m \in 0..MaxClients :
       remoteItems =
         [ clients |-> [i \in 1..n |->
                          UserPoolClient("p1", i, IF i % 2 = 1 THEN NoValue ELSE "s3cr3t",
                                         NoOAuth)],
           providers |-> [i \in 1..m |-> IdentityProvider(ProviderNames[i])] ]
  /\ batch = NoBatch
  /\ returns = [clients |-> 0, providers |-> 0, failed |-> 0]
  /\ apiRequests = NoRequests

\* part_000 109: `this.cachedUserPoolIds.length === 0`
cacheIsEmpty(cache) == Len(cache) = 0

\* part_000 108-110: the call enters listUserPools; with an empty cache it
\* starts the paged listing and waits for it
BeginListUserPools(i) ==
  /\ calls[i].state = "idle"
  /\ LET done == Cardinality({j \in 1..MaxCalls : calls[j].state = "returned"})
     IN IF cacheIsEmpty(cachedUserPoolIds)
        THEN /\ calls' = [calls EXCEPT ![i] =
                            [ state |-> "awaiting", completedBefore |-> done,
                              issued |-> 1, value |-> <<>> ]]
             /\ apiRequests' = [apiRequests EXCEPT !.listUserPools = @ + 1]
        ELSE /\ calls' = [calls EXCEPT ![i] =
                            [ state |-> "returned", completedBefore |-> done,
                              issued |-> 0, value |-> cachedUserPoolIds ]]
             /\ apiRequests' = apiRequests
  /\ UNCHANGED << remotePools, cachedUserPoolIds, remoteItems, batch, returns >>
  /\ UNCHANGED << sessionVars, pagedVars, matchVars >>

\* part_000 118-121: the listing arrived; it is pushed onto the cache and the
\* cache array itself is returned, so the list every earlier call returned
\* (the same array) reads the pushed items too
CompleteListUserPools(i) ==
  /\ calls[i].state = "awaiting"
  /\ cachedUserPoolIds' = cachedUserPoolIds \o remotePools
  /\ calls' = [ j \in 1..MaxCalls |->
                 IF j = i \/ calls[j].state = "returned"
                 THEN [calls[j] EXCEPT !.state = "returned", !.value = cachedUserPoolIds']
                 ELSE calls[j] ]
  /\ UNCHANGED << remotePools, remoteItems, batch, returns, apiRequests >>
  /\ UNCHANGED << sessionVars, pagedVars, matchVars >>

ListUserPoolsBegins == \E i \in 1..MaxCalls : BeginListUserPools(i)
ListUserPoolsCompletes == \E i \in 1..MaxCalls : CompleteListUserPools(i)

\* What the listing operation reports of an item: its id and name.
description(kind, item) ==
  IF kind = "clients" THEN [ClientId |-> item.ClientId, ClientName |-> item.ClientName]
  ELSE [ProviderName |-> item.ProviderName]

\* What the describe operation answers for a listed item.
describe(kind, items, listed) ==
  LET i == CHOOSE j \in 1..Len(items) : description(kind, items[j]) = listed
  IN items[i]

\* (variant: the combined promise waits for every describe and ignores failures)
allSettled(status) ==
  IF \E k \in 1..Len(status) : status[k] = "pending" THEN "pending" ELSE "fulfilled"

\* part_000 156, 186: Promise.all over the describe promises
promiseAll(status) ==
  IF \E k \in 1..Len(status) : status[k] = "failed" THEN "rejected"
  ELSE IF \E k \in 1..Len(status) : status[k] = "pending" THEN "pending"
  ELSE "fulfilled"

\* part_000 158, 188: the details of the fulfilled describes, in listing order
describedItems(kind, items, listed, status) ==
  LET fulfilled == SelectSeq([k \in 1..Len(listed) |-> k], LAMBDA k : status[k] = "ok")
  IN [n \in 1..Len(fulfilled) |-> describe(kind, items, listed[fulfilled[n]])]

\* part_000 134-145, 164-175: the call enters the method and starts the paged listing
BeginList(kind) ==
  /\ batch.state \in {"idle", "returned", "failed"}
  /\ \A k \in 1..Len(batch.status) : batch.status[k] # "pending"
  /\ returns.clients + returns.providers + returns.failed < MaxCalls
  /\ batch' = [ NoBatch EXCEPT !.kind = kind, !.state = "listing",
                               !.priorReturns = returns[kind], !.issued = 1 ]
  /\ apiRequests' = [apiRequests EXCEPT !.list = @ + 1]
  /\ UNCHANGED << remotePools, cachedUserPoolIds, calls, remoteItems, returns >>
  /\ UNCHANGED << sessionVars, pagedVars, matchVars >>

\* part_000 146-154, 176-184: the listing arrived; one describe is started per
\* listed item, none for an empty listing
ListArrives ==
  /\ batch.state = "listing"
  /\ LET listed == [k \in 1..Len(remoteItems[batch.kind]) |->
                      description(batch.kind, remoteItems[batch.kind][k])]
         n == Len(listed)
     IN IF n = 0
        THEN /\ batch' = [batch EXCEPT !.state = "returned", !.result = <<>>]
             /\ returns' = [returns EXCEPT ![batch.kind] = @ + 1]
             /\ apiRequests' = apiRequests
        ELSE /\ batch' = [batch EXCEPT !.state = "describing", !.items = listed,
                                       !.status = [k \in 1..n |-> "pending"],
                                       !.issued = @ + n, !.describes = n]
             /\ returns' = returns
             /\ apiRequests' = [apiRequests EXCEPT !.describe = @ + n]
  /\ UNCHANGED << remotePools, cachedUserPoolIds, calls, remoteItems >>
  /\ UNCHANGED << sessionVars, pagedVars, matchVars >>

\* part_000 156-159, 186-189: one describe settles; the call returns once all
\* are fulfilled and throws as soon as one is rejected
DescribeSettles ==
  /\ \E k \in 1..Len(batch.status), outcome \in {"ok", "failed"} :
       /\ batch.status[k] = "pending"
       /\ LET status == [batch.status EXCEPT ![k] = outcome]
              settled == IF batch.state = "describing" THEN promiseAll(status) ELSE "pending"
          IN /\ batch' =
                  [ batch EXCEPT
                      !.status = status,
                      !.order = Append(@, k),
                      !.state = IF settled = "fulfilled" THEN "returned"
                                ELSE IF settled = "rejected" THEN "failed" ELSE @,
                      !.result = IF settled = "fulfilled"
                                 THEN describedItems(batch.kind, remoteItems[batch.kind],
                                                     batch.items, status)
                                 ELSE @ ]
             /\ returns' = IF settled = "fulfilled" THEN [returns EXCEPT ![batch.kind] = @ + 1]
                           ELSE IF settled = "rejected" THEN [returns EXCEPT !.failed = @ + 1]
                           ELSE returns
  /\ UNCHANGED << remotePools, cachedUserPoolIds, calls, remoteItems, apiRequests >>
  /\ UNCHANGED << sessionVars, pagedVars, matchVars >>

ListUserPoolClientsBegins == BeginList("clients")
ListUserPoolIdentityProvidersBegins == BeginList("providers")

(***************************************************************************)
(* Specifications.                                                         *)
(***************************************************************************)
\* The import session and the rehydration that follows it in the same run,
\* against the account as the session read it (the pool is still there).
Init == InitSession(IssuedShapes) /\ IdlePaged /\ IdleMatch /\ IdleFacade
Next ==
  \/ Start
  \/ SinglePool
  \/ SinglePoolRejects
  \/ PreselectUserPool
  \/ SubmitUserPool
  \/ ValidateSubmittedUserPool
  \/ UserPoolAnswered
  \/ GetUserPoolDetails
  \/ GetUserPoolDetailsRejects
  \/ SelectAppClients
  \/ AnswerWebQuestion
  \/ AnswerNativeQuestion
  \/ Compare
  \/ ResetAppClients
  \/ GetUserPoolMfaConfig
  \/ ListUserPoolIdentityProviders
  \/ ListUserPoolIdentityProvidersRejects
  \/ UpdateStateFiles
  \/ PrintSuccess
  \/ Rehydrate
  \/ RehydrateCreateParameters
  \/ RehydrateListUserPools
  \/ RehydrateListUserPoolsRejects
  \/ RehydrateGetUserPoolDetails
  \/ RehydrateGetUserPoolDetailsRejects
  \/ RehydrateValidateUserPool
  \/ RehydrateUserPoolValidated
  \/ RehydrateListUserPoolClientsRejects
  \/ RehydrateMatched
  \/ RehydrateListUserPoolIdentityProviders
  \/ RehydrateListUserPoolIdentityProvidersRejects
Spec == Init /\ [][Next]_vars

\* The same session against clients whose secret may be the empty string.
InitAnySecret == InitSession(AnySecretShapes) /\ IdlePaged /\ IdleMatch /\ IdleFacade
\* These clients carry no OAuth settings: no pass of the loop ends in a
\* mismatch and no identity providers are listed.
NextAnySecret ==
  \/ Start
  \/ SinglePool
  \/ SinglePoolRejects
  \/ PreselectUserPool
  \/ SubmitUserPool
  \/ ValidateSubmittedUserPool
  \/ UserPoolAnswered
  \/ GetUserPoolDetails
  \/ GetUserPoolDetailsRejects
  \/ SelectAppClients
  \/ AnswerWebQuestion
  \/ AnswerNativeQuestion
  \/ Compare
  \/ GetUserPoolMfaConfig
  \/ ListUserPoolIdentityProviders
  \/ UpdateStateFiles
  \/ PrintSuccess
SpecAnySecret == InitAnySecret /\ [][NextAnySecret]_vars

\* The session against one pool, over OAuth settings with absent and empty
\* lists; the clients of the pool share their settings, so that no pass of the
\* loop ends in a mismatch.
InitOutputBuilder == InitOutputs /\ IdlePaged /\ IdleMatch /\ IdleFacade
NextOutputs ==
  \/ Start
  \/ SinglePool
  \/ SinglePoolRejects
  \/ PreselectUserPool
  \/ GetUserPoolDetails
  \/ GetUserPoolDetailsRejects
  \/ SelectAppClients
  \/ AnswerWebQuestion
  \/ AnswerNativeQuestion
  \/ Compare
  \/ GetUserPoolMfaConfig
  \/ ListUserPoolIdentityProviders
  \/ ListUserPoolIdentityProvidersRejects
  \/ UpdateStateFiles
  \/ PrintSuccess
  \/ Rehydrate
  \/ RehydrateCreateParameters
  \/ RehydrateListUserPools
  \/ RehydrateListUserPoolsRejects
  \/ RehydrateGetUserPoolDetails
  \/ RehydrateGetUserPoolDetailsRejects
  \/ RehydrateValidateUserPool
  \/ RehydrateUserPoolValidated
  \/ RehydrateListUserPoolClientsRejects
  \/ RehydrateMatched
  \/ RehydrateListUserPoolIdentityProviders
  \/ RehydrateListUserPoolIdentityProvidersRejects
SpecOutputs == InitOutputBuilder /\ [][NextOutputs]_vars

\* createFullOutputFromPartialOutput in a later run, against whatever the
\* account holds when each of its reads is answered.
InitRehydrator == InitRehydration /\ IdlePaged /\ IdleMatch /\ IdleFacade
NextRehydrate ==
  \/ Rehydrate
  \/ RehydrateCreateParameters
  \/ RehydrateListUserPools
  \/ RehydrateListUserPoolsRejects
  \/ RehydrateGetUserPoolDetails
  \/ RehydrateUserPoolNotFound
  \/ RehydrateGetUserPoolDetailsRejects
  \/ RehydrateValidateUserPool
  \/ RehydrateUserPoolValidated
  \/ RehydrateListUserPoolClientsRejects
  \/ RehydrateMatched
  \/ RehydrateListUserPoolIdentityProviders
  \/ RehydrateListUserPoolIdentityProvidersRejects
SpecRehydrate == InitRehydrator /\ [][NextRehydrate]_vars

\* pagedAWSCall on every listing of Listings.
InitPagedCall == IdleSession /\ InitPaged /\ IdleMatch /\ IdleFacade
NextPaged ==
  \/ CallAction
  \/ ResponseArrives
  \/ RequestRejected
  \/ Return
SpecPaged == InitPagedCall /\ [][NextPaged]_vars

\* The same call when the event loop keeps running the pending continuation.
SpecPagedFair == InitPagedCall /\ [][NextPaged]_vars /\ WF_vars(NextPaged)

\* The matching step on every pair of OAuthClients.
InitMatching == IdleSession /\ IdlePaged /\ InitMatch /\ IdleFacade
NextMatch == Match
SpecMatch == InitMatching /\ [][NextMatch]_vars

\* Calls of listUserPools on one instance, overlapping or one after another.
InitFacadePools == IdleSession /\ IdlePaged /\ IdleMatch /\ InitListUserPools
NextFacadePools ==
  \/ ListUserPoolsBegins
  \/ ListUserPoolsCompletes
SpecFacadePools == InitFacadePools /\ [][NextFacadePools]_vars

\* Calls of listUserPoolClients and listUserPoolIdentityProviders, one after another.
InitFacadeItems == IdleSession /\ IdlePaged /\ IdleMatch /\ InitListItems
NextFacadeItems ==
  \/ ListUserPoolClientsBegins
  \/ ListUserPoolIdentityProvidersBegins
  \/ ListArrives
  \/ DescribeSettles
SpecFacadeItems == InitFacadeItems /\ [][NextFacadeItems]_vars

(***************************************************************************)
(* Properties.                                                             *)
(***************************************************************************)
Count(x, xs) == Cardinality({i \in 1..Len(xs) : xs[i] = x})

\* Two arrays hold the same values the same number of times (absent = empty).
SameUpToOrder(left, right) ==
  LET l == OrEmpty(left)
      r == OrEmpty(right)
  IN /\ Len(l) = Len(r)
     /\ \A x \in Range(l) \cup Range(r) : Count(x, l) = Count(x, r)

AllSixMatch(web, native) ==
  /\ SameUpToOrder(web.SupportedIdentityProviders, native.SupportedIdentityProviders)
  /\ SameUpToOrder(web.CallbackURLs, native.CallbackURLs)
  /\ SameUpToOrder(web.LogoutURLs, native.LogoutURLs)
  /\ SameUpToOrder(web.AllowedOAuthFlows, native.AllowedOAuthFlows)
  /\ SameUpToOrder(web.AllowedOAuthScopes, native.AllowedOAuthScopes)
  /\ web.AllowedOAuthFlowsUserPoolClient = native.AllowedOAuthFlowsUserPoolClient

DeclaresProviders(client) == ~isEmpty(client.SupportedIdentityProviders)

ProvidersOf(client) == Range(OrEmpty(client.SupportedIdentityProviders))

BothAutoSelected(a) == a.bothAppClientsWereAutoSelected = "true"

HasTable(a, title) == \E i \in 1..Len(a.tables) : a.tables[i].title = title

\* C1: the rehydration of the reduced output a session persisted, with every
\* read answered as the session saw it, succeeds with an output equal to the
\* full output the session persisted.
C1_RoundTrip ==
  (pc = "rehydrated" /\ ~rehydrated.thrown) =>
    /\ rehydrated.succeeded
    /\ rehydrated.output = persisted.meta

\* C2: a pass of the loop takes the branch that accepts without comparing
\* exactly when neither selected client declares a provider.
C2_TrivialIffNoProviders ==
  lastAttempt.branch # "none" =>
    ( lastAttempt.branch = "trivial"
      <=> ( /\ ~DeclaresProviders(lastAttempt.appClientWeb)
            /\ ~DeclaresProviders(lastAttempt.appClientNative) ) )

\* C3: two selected clients with disjoint provider lists, one of them non-empty,
\* give a reported provider mismatch and no accept; with both clients
\* auto-selected the session ends as failed once importResourceCore resumes.
C3_DisjointProvidersMismatch ==
  ( /\ lastAttempt.branch # "none"
    /\ ProvidersOf(lastAttempt.appClientWeb) \cap ProvidersOf(lastAttempt.appClientNative) = {}
    /\ DeclaresProviders(lastAttempt.appClientWeb)
         \/ DeclaresProviders(lastAttempt.appClientNative) )
  => /\ lastAttempt.branch = "mismatch"
     /\ HasTable(lastAttempt, "Configured Identity Providers:")
     /\ (BothAutoSelected(lastAttempt) /\ pc # "mismatch") =>
          pc = "done" /\ ~importSucceeded /\ persisted = NoObject

\* The items of all pages in page order, an absent page or item list adding none.
RECURSIVE AllItems(_)
AllItems(pages) ==
  IF pages = <<>> THEN <<>>
  ELSE AllItems(SubSeq(pages, 1, Len(pages) - 1))
       \o (IF pages[Len(pages)] = NoObject THEN <<>>
           ELSE OrEmpty(pages[Len(pages)].Items))

\* The last page is a response that carries no cursor.
EndsWithoutCursor(pages) ==
  pages[Len(pages)] # NoObject /\ ~hasNextToken(pages[Len(pages)])

\* C4: for a listing of N pages linked by cursors, pagedAWSCall returns the
\* concatenation of the items of pages 1..N in page order and issues exactly
\* N requests.
C4_PagedConcatenation ==
  (pagedPc = "returned" /\ EndsWithoutCursor(listing)) =>
    /\ result = AllItems(listing)
    /\ Len(requests) = Len(listing)

C4_Witness ==
  /\ pagedPc = "returned"
  /\ EndsWithoutCursor(listing)
  /\ Len(listing) >= 2
  /\ \A i \in 1..Len(listing) : listing[i].Items # NoList /\ Len(listing[i].Items) >= 1

\* A directory is mixed when it has a client with a secret and one without;
\* an empty secret may be read either way.
MixedDirectory(clients) ==
  \/ /\ \E i \in 1..Len(clients) : clients[i].ClientSecret \notin {NoValue, ""}
     /\ \E i \in 1..Len(clients) : clients[i].ClientSecret \in {NoValue, ""}
  \/ /\ \E i \in 1..Len(clients) : clients[i].ClientSecret # NoValue
     /\ \E i \in 1..Len(clients) : clients[i].ClientSecret = NoValue

\* C5: a directory accepted by validateUserPool is never one whose clients are
\* all secret-bearing or all non-secret-bearing.
C5_AcceptedOnlyIfMixed ==
  remote.poolId # NoValue => MixedDirectory(remote.clients)

\* C6: two clients whose five lists are equal up to order and whose
\* flows-enabled flags are equal, with a non-empty provider list, are accepted
\* with the common providers restricted to the allowlist and with the web
\* client's five properties as the OAuth bundle.
C6_MatchingAccepts ==
  ( /\ matchPc = "matched"
    /\ AllSixMatch(matchWeb, matchNative)
    /\ DeclaresProviders(matchWeb) )
  => /\ matchResult.isValid
     /\ matchResult.oauthProviders # NoList
     /\ Range(matchResult.oauthProviders)
          = (ProvidersOf(matchWeb) \cap ProvidersOf(matchNative))
              \cap {"COGNITO", "Facebook", "Google", "LoginWithAmazon"}
     /\ matchResult.oauthProperties
          = [ callbackURLs |-> matchWeb.CallbackURLs,
              logoutURLs |-> matchWeb.LogoutURLs,
              allowedOAuthFlows |-> matchWeb.AllowedOAuthFlows,
              allowedOAuthScopes |-> matchWeb.AllowedOAuthScopes,
              allowedOAuthFlowsUserPoolClient |-> matchWeb.AllowedOAuthFlowsUserPoolClient ]

C6_Witness ==
  /\ matchPc = "matched"
  /\ AllSixMatch(matchWeb, matchNative)
  /\ matchWeb.SupportedIdentityProviders = <<"Google", "Facebook">>
  /\ matchNative.SupportedIdentityProviders = <<"Facebook", "Google">>
  /\ matchWeb.CallbackURLs # matchNative.CallbackURLs
  /\ matchWeb.AllowedOAuthScopes # matchNative.AllowedOAuthScopes
  /\ matchResult.isValid

\* The matching step found a mismatch between two auto-selected clients.
ForcedMismatch ==
  lastAttempt.branch = "mismatch" /\ BothAutoSelected(lastAttempt)

\* ... and importResourceCore has resumed after it.
ForcedFailure == ForcedMismatch /\ pc # "mismatch"

\* The steps of the session after client selection has begun.
AfterDirectory ==
  { "appClients", "webQuestion", "nativeQuestion", "compare", "mismatch", "finish",
    "identityProviders", "write", "written", "done", "threw" }

\* C7: a mismatch with both roles auto-selected ends the session without
\* success: when importResourceCore resumes after the matching step it
\* returns, printing nothing more; nothing is persisted, and no step follows
\* (no selection, no question).
C7_ForcedFailureEndsSession ==
  /\ [](ForcedMismatch =>
          /\ pc \in {"mismatch", "done"}
          /\ ~importSucceeded
          /\ persisted = NoObject
          /\ writes = 0
          /\ asked.appClientWebId = 0 /\ asked.appClientNativeId = 0)
  /\ [][(ForcedMismatch /\ pc = "mismatch") =>
          /\ pc' = "done"
          /\ printed' = printed
          /\ UNCHANGED << asked, persisted, writes, attempt >>]_vars
  /\ [][ForcedFailure => UNCHANGED vars]_vars

C7_Witness ==
  /\ ForcedFailure
  /\ pc = "done"
  /\ Len(questionParameters.webClients) = 1
  /\ Len(questionParameters.nativeClients) = 1

DirectoryUnchanged ==
  /\ answers'.userPoolId = answers.userPoolId
  /\ answers'.userPool = answers.userPool
  /\ asked'.userPoolId = asked.userPoolId

\* C8: a mismatch with an operator choice involved clears both client
\* selections and returns to client selection, the selected directory left as
\* it is; once a directory is selected it is never asked for again.
C8_RetryKeepsDirectory ==
  [][ /\ (pc = "compare" /\ lastAttempt'.branch = "mismatch") =>
           /\ pc' = "mismatch"
           /\ answers' = answers
      /\ (pc = "mismatch" /\ ~BothAutoSelected(lastAttempt)) =>
           /\ pc' = "appClients"
           /\ answers'.appClientWeb = NoObject
           /\ answers'.appClientNative = NoObject
           /\ answers'.userPoolId # NoValue
           /\ DirectoryUnchanged
      /\ pc \in AfterDirectory => DirectoryUnchanged
    ]_vars

C8_Witness ==
  /\ pc = "compare"
  /\ attempt >= 2
  /\ lastAttempt.branch = "mismatch"
  /\ ~BothAutoSelected(lastAttempt)
  /\ answers.userPoolId = remote.poolId
  /\ answers.appClientWeb # NoObject

\* C9: a pass of the loop ends it only by the accept without comparison, by the
\* accept after all six properties match, or by the forced failure; a mismatch
\* with an operator choice involved continues with another pass.  (The
\* matching step decides the mismatch; importResourceCore acts on it when it
\* resumes.)
C9_LoopExits ==
  /\ [][ pc = "compare" =>
        \/ /\ pc' = "finish"
           /\ importSucceeded'
           /\ lastAttempt'.branch = "trivial"
           /\ ~DeclaresProviders(lastAttempt'.appClientWeb)
        \/ /\ pc' = "finish"
           /\ importSucceeded'
           /\ lastAttempt'.branch = "matched"
           /\ AllSixMatch(lastAttempt'.appClientWeb, lastAttempt'.appClientNative)
        \/ /\ pc' = "mismatch"
           /\ ~importSucceeded'
           /\ lastAttempt'.branch = "mismatch"
           /\ ~AllSixMatch(lastAttempt'.appClientWeb, lastAttempt'.appClientNative)
    ]_vars
  /\ [][ pc = "mismatch" =>
          /\ ~importSucceeded'
          /\ lastAttempt' = lastAttempt
          /\ pc' = IF BothAutoSelected(lastAttempt) THEN "done" ELSE "appClients"
      ]_vars

C9_Witness ==
  /\ pc = "finish"
  /\ attempt >= 2
  /\ lastAttempt.branch = "matched"

\* The steps of a session whose loop ended with success.
AfterLoop == {"finish", "identityProviders", "write", "written", "done"} \cup RehydrationPcs

\* The scenario of C10: one directory, one client with a secret and one
\* without, neither declaring a provider.
OneDirectoryTwoPlainClients ==
  /\ Len(userPools) = 1
  /\ remote.poolId = userPools[1].Id
  /\ Len(remote.clients) = 2
  /\ \E i, j \in 1..2 :
       /\ remote.clients[i].ClientSecret = NoValue
       /\ remote.clients[j].ClientSecret \notin {NoValue, ""}
  /\ \A i \in 1..2 : ~DeclaresProviders(remote.clients[i])

\* C10: in that scenario no client question is asked, both clients are
\* auto-selected, the first pass accepts without comparison, and the full
\* output persisted has the directory's id, no OAuthMetadata, and no
\* credentials payload goes with it.
C10_PlainScenario ==
  OneDirectoryTwoPlainClients =>
    /\ asked.appClientWebId = 0 /\ asked.appClientNativeId = 0
    /\ attempt <= 1
    /\ pc \notin {"webQuestion", "nativeQuestion", "mismatch"}
    /\ pc \in {"compare"} \cup AfterLoop =>
         /\ answers.appClientWeb.ClientSecret = NoValue
         /\ answers.appClientNative.ClientSecret # NoValue
         /\ BothAutoSelected(questionParameters)
         /\ {"SingleAppClientSelected(Web)", "SingleAppClientSelected(Native)"}
              \subseteq printed
    /\ pc \in AfterLoop =>
         /\ lastAttempt.branch = "trivial"
         /\ importSucceeded
    /\ pc \in {"written", "done"} \cup RehydrationPcs =>
         /\ persisted # NoObject
         /\ persisted.meta["UserPoolId"] = userPools[1].Id
         /\ "OAuthMetadata" \notin DOMAIN persisted.meta
         /\ persisted.hostedUIProviderCreds = NoCreds

C10_Witness ==
  /\ OneDirectoryTwoPlainClients
  /\ pc = "done"
  /\ persisted # NoObject

NonEmptyList(xs) == xs # NoList /\ Len(xs) >= 1

\* The answer holds at least one accepted provider and an OAuth bundle whose
\* four lists are each non-empty.
OAuthConfigured(a) ==
  /\ NonEmptyList(a.oauthProviders)
  /\ a.oauthProperties # NoObject
  /\ NonEmptyList(a.oauthProperties.allowedOAuthFlows)
  /\ NonEmptyList(a.oauthProperties.allowedOAuthScopes)
  /\ NonEmptyList(a.oauthProperties.callbackURLs)
  /\ NonEmptyList(a.oauthProperties.logoutURLs)

\* C11: the full output has the OAuthMetadata record exactly when the answer
\* holds at least one accepted provider and non-empty flow, scope, callback
\* and logout lists, in the output the import persists, judged on the answers
\* of the import, and in the output the rehydration rebuilds, judged on the
\* answers the rehydration gathered step by step; until the rehydration has
\* settled it carries no output.
C11_MetadataIffConfigured ==
  /\ persisted # NoObject =>
       ("OAuthMetadata" \in DOMAIN persisted.meta <=> OAuthConfigured(answers))
  /\ (pc \in RehydrationPcs /\ rehydrated.succeeded) =>
       /\ pc = "rehydrated"
       /\ "OAuthMetadata" \in DOMAIN rehydrated.output <=> OAuthConfigured(rehydrated.answers)
  /\ (pc \in RehydrationPcs /\ pc # "rehydrated") =>
       /\ ~rehydrated.succeeded
       /\ rehydrated.output = NoObject

C11_Witness ==
  /\ pc = "rehydrated"
  /\ rehydrated.succeeded
  /\ rehydrated.identityProviderCalls = 1
  /\ OAuthConfigured(rehydrated.answers)
  /\ "OAuthMetadata" \in DOMAIN persisted.meta
  /\ "OAuthMetadata" \in DOMAIN rehydrated.output

\* C12: the credentials payload is written only when OAuth is configured, it
\* has one entry per identity-provider binding of the answer, and no entry
\* names a provider outside the accepted providers.
C12_CredentialsOfAcceptedProviders ==
  (persisted # NoObject /\ persisted.hostedUIProviderCreds # NoCreds) =>
    /\ OAuthConfigured(answers)
    /\ Len(persisted.hostedUIProviderCreds) = Len(answers.identityProviders)
    /\ \A i \in 1..Len(persisted.hostedUIProviderCreds) :
         /\ persisted.hostedUIProviderCreds[i].ProviderName
              = answers.identityProviders[i].ProviderName
         /\ persisted.hostedUIProviderCreds[i].ProviderName \in Range(answers.oauthProviders)

ReducedKeys == {"UserPoolId", "UserPoolName", "AppClientID", "AppClientIDWeb"}

\* C13: the reduced output persisted has the four fields UserPoolId,
\* UserPoolName, AppClientID and AppClientIDWeb and no other, each present in
\* the full output with the same value.
C13_ReducedWithinFull ==
  persisted # NoObject =>
    /\ DOMAIN persisted.backendConfig = ReducedKeys
    /\ ReducedKeys \subseteq DOMAIN persisted.meta
    /\ \A k \in ReducedKeys : persisted.backendConfig[k] = persisted.meta[k]
    /\ persisted.backendConfig["UserPoolId"] = answers.userPoolId
    /\ persisted.backendConfig["AppClientID"] = answers.appClientNative.ClientId
    /\ persisted.backendConfig["AppClientIDWeb"] = answers.appClientWeb.ClientId

C13_Witness ==
  /\ persisted # NoObject
  /\ "OAuthMetadata" \in DOMAIN persisted.meta
  /\ persisted.meta["AppClientID"] # persisted.meta["AppClientIDWeb"]

\* The remote account as the reads of the rehydration found it.
PoolGone == remote.detail = NotFound

ClientsRead == remote.poolId # NoValue

EligibleDirectory(clients) ==
  /\ \E i \in 1..Len(clients) : clients[i].ClientSecret = NoValue
  /\ \E i \in 1..Len(clients) : clients[i].ClientSecret \notin {NoValue, ""}

Ineligible == ClientsRead /\ ~EligibleDirectory(remote.clients)

RecordedWebPresent ==
  \E i \in 1..Len(remote.clients) :
    /\ remote.clients[i].ClientId = persisted.backendConfig["AppClientIDWeb"]
    /\ remote.clients[i].ClientSecret = NoValue

RecordedNativePresent ==
  \E i \in 1..Len(remote.clients) :
    /\ remote.clients[i].ClientId = persisted.backendConfig["AppClientID"]
    /\ remote.clients[i].ClientSecret # NoValue

ClientWithId(id) == CHOOSE c \in Range(remote.clients) : c.ClientId = id

RecordedClientsMatch ==
  AllSixMatch(ClientWithId(persisted.backendConfig["AppClientIDWeb"]),
              ClientWithId(persisted.backendConfig["AppClientID"]))

\* Both recorded clients are in the list that was read, in their roles.
RecordedClientsPresent ==
  ClientsRead /\ EligibleDirectory(remote.clients)
    /\ RecordedWebPresent /\ RecordedNativePresent

NothingAsked == \A name \in DOMAIN asked : asked[name] = 0

\* C14: in the rehydration a pool that is gone gives the not-found report and
\* a thrown error, a pool that is there but not eligible gives the validation
\* report and succeeded = false once the call has resumed with the verdict of
\* validateUserPool, and neither report comes with the other condition, nor
\* with a read that fails for another reason.
C14_GoneOrIneligible ==
  pc \in RehydrationPcs =>
    /\ PoolGone <=> "UserPoolNotFound" \in Range(rehydrated.printed)
    /\ PoolGone <=> rehydrated.error = "ResourceNotFoundException"
    /\ PoolGone =>
         /\ pc = "rehydrated"
         /\ rehydrated.thrown
         /\ ~rehydrated.succeeded
         /\ rehydrated.printed = <<"UserPoolNotFound">>
         /\ ~ClientsRead
    /\ (Ineligible /\ pc = "rehydrated")
         <=> "UserPoolValidation" \in Range(rehydrated.printed)
    /\ Ineligible <=> rehydrated.validationResult = AppClientValidation
    /\ Ineligible =>
         /\ pc \in {"rehydrate:userPoolValidated", "rehydrated"}
         /\ ~rehydrated.thrown
         /\ ~rehydrated.succeeded
         /\ rehydrated.printed =
              IF pc = "rehydrated" THEN <<"UserPoolValidation", AppClientValidation>>
              ELSE <<>>
         /\ rehydrated.answers.userPool = remote.detail
    /\ rehydrated.error = "Error" =>
         /\ rehydrated.thrown
         /\ rehydrated.printed = <<>>

C14_Witness ==
  /\ pc = "rehydrated"
  /\ ~PoolGone
  /\ Len(remote.clients) >= 2
  /\ Ineligible
  /\ ~rehydrated.thrown
  /\ ~rehydrated.succeeded

\* No step of the rehydration puts a question.
AsksNothing == (pc \in {"done"} \cup RehydrationPcs) => (asked' = asked)

RehydrationAsksNothing == [][AsksNothing]_vars

\* The clients of the answers are the recorded ones, taken from the list read.
ResolvedByRecordedId ==
  /\ rehydrated.answers.appClientWeb = ClientWithId(persisted.backendConfig["AppClientIDWeb"])
  /\ rehydrated.answers.appClientNative = ClientWithId(persisted.backendConfig["AppClientID"])
  /\ rehydrated.answers.appClientWeb \in Range(rehydrated.questionParameters.webClients)
  /\ rehydrated.answers.appClientNative \in Range(rehydrated.questionParameters.nativeClients)

\* validateUserPool has returned and the call has not resumed: the clients
\* are in the parameters, none is looked up and nothing is printed.
LookupPending ==
  /\ rehydrated.validationResult = "true"
  /\ rehydrated.questionParameters.webClients = SelectSeq(remote.clients, isWebClient)
  /\ rehydrated.questionParameters.nativeClients = SelectSeq(remote.clients, isNativeClient)
  /\ rehydrated.answers.appClientWeb = NoObject
  /\ rehydrated.answers.appClientNative = NoObject
  /\ rehydrated.matchingCalls = 0
  /\ rehydrated.printed = <<>>

ClientsLookedUp ==
  ( /\ pc \in RehydrationPcs \ {"rehydrate:userPoolValidated"}
    /\ ClientsRead
    /\ EligibleDirectory(remote.clients) ) =>
    /\ ~RecordedWebPresent =>
         /\ pc = "rehydrated"
         /\ ~rehydrated.succeeded /\ ~rehydrated.thrown
         /\ rehydrated.printed = <<"AppClientNotFound Web">>
         /\ rehydrated.matchingCalls = 0
    /\ (RecordedWebPresent /\ ~RecordedNativePresent) =>
         /\ pc = "rehydrated"
         /\ ~rehydrated.succeeded /\ ~rehydrated.thrown
         /\ rehydrated.printed = <<"AppClientNotFound Native">>
         /\ rehydrated.matchingCalls = 0
    /\ (RecordedWebPresent /\ RecordedNativePresent) =>
         /\ ResolvedByRecordedId
         /\ "AppClientNotFound Web" \notin Range(rehydrated.printed)
         /\ "AppClientNotFound Native" \notin Range(rehydrated.printed)
    /\ rehydrated.succeeded =>
         /\ RecordedWebPresent /\ RecordedNativePresent
         /\ rehydrated.output["AppClientIDWeb"] = persisted.backendConfig["AppClientIDWeb"]
         /\ rehydrated.output["AppClientID"] = persisted.backendConfig["AppClientID"]

ClientsByRecordedId ==
  /\ (pc = "rehydrate:userPoolValidated" /\ EligibleDirectory(remote.clients)) => LookupPending
  /\ ClientsLookedUp

\* C15: the rehydration takes the two clients from the lists it has just read,
\* by their recorded ids, once it has resumed with the verdict of
\* validateUserPool, and none of its steps asks a question; a recorded web or
\* native id that is not in its list gives succeeded = false and the
\* client-not-found report of that role, the matching step not being run.
C15_ClientsByRecordedId == []ClientsByRecordedId /\ RehydrationAsksNothing

C15_Witness ==
  /\ pc = "rehydrated"
  /\ ~PoolGone
  /\ EligibleDirectory(remote.clients)
  /\ RecordedWebPresent
  /\ ~RecordedNativePresent
  /\ rehydrated.printed = <<"AppClientNotFound Native">>

\* Once the call has resumed with the clients and the matching step has run on
\* clients that do not match, the call has printed the mismatch, has run the
\* step once and holds the recorded clients.
MismatchSeen ==
  ( /\ pc \in RehydrationPcs \ {"rehydrate:userPoolValidated"}
    /\ RecordedClientsPresent
    /\ ~RecordedClientsMatch )
  => /\ pc \in {"rehydrate:matching", "rehydrated"}
     /\ ~rehydrated.oauthResult.isValid
     /\ ~rehydrated.succeeded
     /\ ~rehydrated.thrown
     /\ rehydrated.printed = <<"SomePropertiesAreNotMatching">>
     /\ rehydrated.matchingCalls = 1
     /\ rehydrated.identityProviderCalls = 0
     /\ rehydrated.output = NoObject
     /\ ResolvedByRecordedId

\* The step that follows a mismatch settles the call: nothing more is read,
\* run, selected or asked.
EndsCall ==
  (pc = "rehydrate:matching" /\ ~rehydrated.oauthResult.isValid) =>
    /\ pc' = "rehydrated"
    /\ ~rehydrated'.succeeded
    /\ rehydrated'.matchingCalls = rehydrated.matchingCalls
    /\ rehydrated'.answers = rehydrated.answers
    /\ rehydrated'.printed = rehydrated.printed
    /\ remote' = remote
    /\ asked' = asked

MismatchEndsCall == [][EndsCall]_vars

\* C16: in the rehydration two clients that do not match end the call with
\* succeeded = false: the matching step, which runs once in any call, reports
\* the mismatch, and the next step returns the failure with the clients as
\* they were looked up, no further read and no question.
C16_MismatchFailsAtOnce ==
  /\ []MismatchSeen
  /\ [](pc \in RehydrationPcs => rehydrated.matchingCalls <= 1)
  /\ [](pc = "rehydrate:userPoolValidated" => rehydrated.matchingCalls = 0)
  /\ MismatchEndsCall

C16_Witness ==
  /\ pc = "rehydrated"
  /\ RecordedClientsPresent
  /\ ~RecordedClientsMatch
  /\ DeclaresProviders(ClientWithId(persisted.backendConfig["AppClientIDWeb"]))
  /\ rehydrated.matchingCalls = 1
  /\ ~rehydrated.succeeded

\* C17: a rehydration that fails (pool gone, pool not eligible, web client
\* missing, native client missing, clients not matching, or a read of the
\* account that is rejected) carries no output and no credentials payload, and
\* it fails for one of these reasons only; one that succeeds carries an
\* output; a call that has not settled carries neither.
C17_FailureCarriesNothing ==
  /\ pc = "rehydrated" =>
       /\ ~rehydrated.succeeded =>
            /\ rehydrated.output = NoObject
            /\ rehydrated.hostedUIProviderCreds = NoCreds
       /\ rehydrated.succeeded =>
            /\ ~rehydrated.thrown
            /\ rehydrated.output # NoObject
            /\ ReducedKeys \subseteq DOMAIN rehydrated.output
       /\ rehydrated.thrown <=> (PoolGone \/ rehydrated.error = "Error")
       /\ ( \/ rehydrated.thrown
            \/ ~EligibleDirectory(remote.clients)
            \/ ~RecordedWebPresent
            \/ ~RecordedNativePresent
            \/ ~RecordedClientsMatch ) <=> ~rehydrated.succeeded
  /\ (pc \in RehydrationPcs /\ pc # "rehydrated") =>
       /\ ~rehydrated.succeeded
       /\ ~rehydrated.thrown
       /\ rehydrated.output = NoObject
       /\ rehydrated.hostedUIProviderCreds = NoCreds

C17_Witness ==
  /\ pc = "rehydrated"
  /\ ~PoolGone
  /\ EligibleDirectory(remote.clients)
  /\ ~RecordedWebPresent
  /\ ~rehydrated.succeeded
  /\ ~rehydrated.thrown
  /\ rehydrated.output = NoObject

\* C18: with one pool listed, the pool is selected only after it passed the
\* check; when it does not pass, the reason is reported and the session has
\* ended with no pool selected, no question asked and nothing persisted; so
\* it has when the clients of the pool could not be listed, nothing being
\* reported.
C18_SinglePoolChecked ==
  (Len(userPools) = 1 /\ pc \notin {"start", "userPool"}) =>
    \/ /\ answers.userPoolId = IF pc = "userPoolValidated" THEN NoValue ELSE userPools[1].Id
       /\ IF remote.detail = NoObject
          THEN /\ answers.userPool = NoObject
               /\ pc \in {"userPoolValidated", "userPoolDetails", "threw"}
          ELSE answers.userPool = remote.detail /\ remote.detail \in PoolDetails(userPools[1].Id)
       /\ remote.poolId = userPools[1].Id
       /\ EligibleDirectory(remote.clients)
       /\ "OnePoolNotValid" \notin printed
       /\ asked.userPoolId = 0
    \/ /\ printed = {"OnePoolNotValid", AppClientValidation}
       /\ pc = "done"
       /\ answers = NoAnswers
       /\ remote = NoRemote
       /\ NothingAsked
       /\ persisted = NoObject
       /\ writes = 0
    \/ /\ pc = "threw"
       /\ printed = {}
       /\ answers = NoAnswers
       /\ remote = NoRemote
       /\ NothingAsked
       /\ persisted = NoObject
       /\ writes = 0

C18_Witness ==
  /\ Len(userPools) = 1
  /\ "OnePoolNotValid" \in printed
  /\ pc = "done"
  /\ persisted = NoObject

\* C19: with several pools listed, the pool in the answers is one that passed
\* the check; a choice that does not pass leaves the question open and the
\* session where it was.
C19_ChosenPoolEligible ==
  /\ []( (Len(userPools) > 1 /\ answers.userPoolId # NoValue) =>
            /\ remote.poolId = answers.userPoolId
            /\ \E i \in 1..Len(userPools) : userPools[i].Id = answers.userPoolId
            /\ EligibleDirectory(remote.clients)
            /\ asked.userPoolId = 1 )
  /\ []( (Len(userPools) > 1 /\ answers.userPoolId = NoValue) =>
            /\ pc \in {"start", "userPool", "userPoolValidation", "userPoolValidated"}
            /\ answers = NoAnswers
            /\ attempt = 0
            /\ asked.appClientWebId = 0 /\ asked.appClientNativeId = 0
            /\ pc = "userPoolValidated" =>
                 (submitted = remote.poolId /\ EligibleDirectory(remote.clients)) )
  /\ [][ (Len(userPools) > 1 /\ pc = "userPoolValidation" /\ rejected' # NoValue) =>
            /\ rejected' = submitted
            /\ pc' = "userPool"
            /\ answers' = answers
            /\ questionParameters' = questionParameters
            /\ remote' = remote
            /\ attempt' = attempt
            /\ asked' = asked ]_vars
  /\ [][ (Len(userPools) > 1 /\ answers'.userPoolId # answers.userPoolId) =>
            /\ pc = "userPoolValidated"
            /\ answers'.userPoolId = submitted ]_vars

C19_Witness ==
  /\ Len(userPools) > 1
  /\ rejected # NoValue
  /\ pc = "userPool"
  /\ asked.userPoolId = 1
  /\ answers.userPoolId = NoValue

\* C20: with no pool listed the session reports it and has ended: no client
\* was listed for a check, no question was asked, nothing was persisted.
C20_NoPoolsEndsSession ==
  (Len(userPools) = 0 /\ pc # "start") =>
    /\ pc = "done"
    /\ printed = {"NoPoolsInRegion"}
    /\ remote = NoRemote
    /\ answers = NoAnswers
    /\ Len(questionParameters.webClients) = 0
    /\ Len(questionParameters.nativeClients) = 0
    /\ NothingAsked
    /\ persisted = NoObject
    /\ writes = 0
    /\ rehydrated = NoObject

C20_Witness ==
  /\ Len(userPools) = 0
  /\ pc = "done"
  /\ "NoPoolsInRegion" \in printed

\* C21: on one instance, a call of listUserPools that begins after another
\* call has completed sends no request to the remote API and returns the
\* cached list at once, whatever the remote listing holds.
C21_LaterCallsUseCache ==
  \A i \in 1..MaxCalls :
    (calls[i].state # "idle" /\ calls[i].completedBefore > 0) =>
      /\ calls[i].issued = 0
      /\ calls[i].state = "returned"

\* C22: a call of listUserPoolClients that begins after an earlier call for
\* the same pool has returned sends neither a list nor a describe request.
C22_ClientListMemoized ==
  (batch.kind = "clients" /\ batch.state # "idle" /\ batch.priorReturns > 0) =>
    /\ batch.issued = 0
    /\ batch.state = "returned"

\* C23: once the listing of a call of listUserPoolClients or
\* listUserPoolIdentityProviders arrived, one describe per listed item has
\* been started, before any of them settled; the call returns only when every
\* describe is fulfilled, with the details in listing order; as soon as one
\* describe is rejected the call has failed and carries no list, in whatever
\* order the describes settle.
C23_BatchAllOrNothing ==
  LET remoteList == remoteItems[batch.kind]
      settledSome == \E k \in 1..Len(batch.status) : batch.status[k] # "pending"
      failedSome == \E k \in 1..Len(batch.status) : batch.status[k] = "failed"
  IN /\ batch.state \in {"describing", "returned", "failed"} =>
          /\ batch.describes = Len(remoteList)
          /\ batch.issued = 1 + Len(remoteList)
          /\ Len(batch.status) = Len(remoteList)
     /\ settledSome => batch.describes = Len(batch.status)
     /\ batch.state = "returned" =>
          /\ \A k \in 1..Len(batch.status) : batch.status[k] = "ok"
          /\ batch.result = remoteList
     /\ batch.state = "describing" => ~failedSome /\ batch.result = NoDetails
     /\ failedSome <=> batch.state = "failed"
     /\ batch.state = "failed" => batch.result = NoDetails

\* A describe was fulfilled out of listing order, a later one was rejected,
\* and the call failed.
C23_Witness ==
  /\ batch.state = "failed"
  /\ Len(batch.order) >= 2
  /\ batch.order[1] > batch.order[2]
  /\ batch.status[batch.order[1]] = "ok"
  /\ batch.status[batch.order[2]] = "failed"

\* The responses received so far: every request but one still awaited, or
\* one that was rejected
Received == IF pagedPc \in {"await", "threw"} THEN Len(requests) - 1 ELSE Len(requests)

\* `!!cursor` of a response, false for an absent response
TruthyCursor(resp) == resp # NoObject /\ resp.NextToken # NoValue /\ resp.NextToken # ""

\* C24: pagedAWSCall ends on every finite listing: it returns unless one of
\* its requests is rejected; it has stopped requesting exactly when the last
\* response is absent or carries an absent or empty cursor, and a request
\* other than the first is sent only after a response with a truthy cursor.
C24_Terminates ==
  /\ <>(pagedPc \in {"returned", "threw"})
  /\ [](pagedPc \in {"return", "returned"} => (requests # <<>> /\ ~TruthyCursor(response)))
  /\ [](pagedPc = "call" /\ requests # <<>> => TruthyCursor(response))
  /\ [][requests' # requests => (requests = <<>> \/ TruthyCursor(response))]_vars

\* The call returned after several requests, the last response carrying an
\* empty cursor.
C24_Witness ==
  /\ pagedPc = "returned"
  /\ Len(requests) >= 2
  /\ response # NoObject
  /\ response.NextToken = ""

\* A response whose accessor yields an absent or empty sequence.
EmptyPage(resp) == resp # NoObject /\ (resp.Items = NoList \/ Len(resp.Items) = 0)

\* C25: a page whose accessor yields an absent or empty sequence leaves the
\* collected result as it was, and the loop goes on when that page carries a
\* truthy cursor; what was collected from earlier pages stays in front, and
\* the result is at every point the items of the pages received so far.
C25_EmptyPagesSkipped ==
  /\ [](result = AllItems(SubSeq(listing, 1, Received)))
  /\ [][(pagedPc = "await" /\ pagedPc' # "threw" /\ EmptyPage(response')) =>
          /\ result' = result
          /\ TruthyCursor(response') => pagedPc' = "call"]_vars
  /\ [][/\ Len(result') >= Len(result)
        /\ SubSeq(result', 1, Len(result)) = result]_vars

\* The call returned the items of the first and the third page; the second
\* page had no items and carried a cursor.
C25_Witness ==
  /\ pagedPc = "returned"
  /\ Len(listing) = 3
  /\ Len(requests) = 3
  /\ listing[1].Items # NoList /\ Len(listing[1].Items) >= 1
  /\ EmptyPage(listing[2])
  /\ listing[3] # NoObject /\ listing[3].Items # NoList /\ Len(listing[3].Items) >= 1
  /\ result = listing[1].Items \o listing[3].Items

\* C26: the requests of one call go out one at a time, each after the
\* response to the one before; each carries the fixed parameters; the first
\* carries no cursor and every later one the cursor of the response that
\* immediately precedes it.
C26_CursorChained ==
  /\ [](\A k \in 1..Len(requests) :
          /\ requests[k].MaxResults = MaxResults
          /\ DOMAIN requests[k] = {"MaxResults", "NextToken"}
          /\ requests[k].NextToken = IF k = 1 THEN NoValue ELSE listing[k - 1].NextToken)
  /\ [](Received > 0 => response = listing[Received])
  /\ [](Len(requests) - Received \in {0, 1})
  /\ [][requests' # requests =>
          /\ Received = Len(requests)
          /\ Len(requests') = Len(requests) + 1
          /\ SubSeq(requests', 1, Len(requests)) = requests
          /\ requests'[Len(requests')].NextToken =
               IF requests = <<>> THEN NoValue ELSE response.NextToken]_vars

\* Three requests were sent; the second and third carry the cursors of the
\* first and second response.
C26_Witness ==
  /\ Len(requests) = 3
  /\ requests[1].NextToken = NoValue
  /\ requests[2].NextToken = "t1"
  /\ requests[3].NextToken = "t2"

Reverse(xs) == IF xs = NoList THEN NoList ELSE [i \in 1..Len(xs) |-> xs[Len(xs) + 1 - i]]

\* The client with each of its five lists in the opposite order.
Reordered(client) ==
  [ client EXCEPT !.SupportedIdentityProviders = Reverse(@),
                  !.CallbackURLs = Reverse(@),
                  !.LogoutURLs = Reverse(@),
                  !.AllowedOAuthFlows = Reverse(@),
                  !.AllowedOAuthScopes = Reverse(@) ]

\* C27: the matching step finds two clients valid exactly when their five
\* lists are equal up to order (absent counting as empty) and their
\* flows-enabled flags are equal; the verdict is the same when the lists of
\* either client are reordered and when the two clients change places.
C27_VerdictIsSixChecks ==
  matchPc = "matched" =>
    /\ matchResult.isValid <=> AllSixMatch(matchWeb, matchNative)
    /\ appClientsOAuthPropertiesMatching(matchNative, matchWeb).isValid = matchResult.isValid
    /\ appClientsOAuthPropertiesMatching(Reordered(matchWeb), matchNative).isValid
         = matchResult.isValid
    /\ appClientsOAuthPropertiesMatching(matchWeb, Reordered(matchNative)).isValid
         = matchResult.isValid

\* Two clients found valid whose provider, callback and scope lists are in
\* different orders.
C27_Witness ==
  /\ matchPc = "matched"
  /\ matchResult.isValid
  /\ matchWeb.SupportedIdentityProviders = <<"Google", "Facebook">>
  /\ matchNative.SupportedIdentityProviders = <<"Facebook", "Google">>
  /\ matchWeb.CallbackURLs # matchNative.CallbackURLs
  /\ matchWeb.AllowedOAuthScopes # matchNative.AllowedOAuthScopes

\* The six compared properties in the order their tables are printed, each
\* with the values of the two clients.
ComparedProperties(web, native) ==
  << [ title |-> "Configured Identity Providers:",
       web |-> web.SupportedIdentityProviders, native |-> native.SupportedIdentityProviders ],
     [ title |-> "OAuth Flow Enabled for Application Client:",
       web |-> << IF web.AllowedOAuthFlowsUserPoolClient = NoValue THEN ""
                  ELSE web.AllowedOAuthFlowsUserPoolClient >>,
       native |-> << IF native.AllowedOAuthFlowsUserPoolClient = NoValue THEN ""
                     ELSE native.AllowedOAuthFlowsUserPoolClient >> ],
     [ title |-> "Callback URLs:", web |-> web.CallbackURLs, native |-> native.CallbackURLs ],
     [ title |-> "Logout URLs:", web |-> web.LogoutURLs, native |-> native.LogoutURLs ],
     [ title |-> "Allowed OAuth Flows:",
       web |-> web.AllowedOAuthFlows, native |-> native.AllowedOAuthFlows ],
     [ title |-> "Allowed OAuth Scopes:",
       web |-> web.AllowedOAuthScopes, native |-> native.AllowedOAuthScopes ] >>

Longest(left, right) ==
  IF Len(OrEmpty(left)) > Len(OrEmpty(right)) THEN Len(OrEmpty(left)) ELSE Len(OrEmpty(right))

\* The values of one column of a table, padding cells left out.
ColumnValues(rows, column) ==
  {rows[i][column] : i \in {j \in 1..Len(rows) : rows[j][column] # ""}}

\* C28: on a mismatch the matching step prints one table for each property
\* that differs and none for a property that matches, in the order provider
\* set, flows-enabled flag, callback URLs, logout URLs, allowed flows, allowed
\* scopes; each table is headed by the two client names and its two value
\* columns have the same number of rows, the shorter one padded with empty
\* cells, and the message that some properties do not match goes before the
\* tables.  Matching clients get no table and no message.
C28_TablesOfFailingProperties ==
  matchPc = "matched" =>
    LET failing == SelectSeq(ComparedProperties(matchWeb, matchNative),
                             LAMBDA c : ~SameUpToOrder(c.web, c.native))
        tables == matchResult.tables
    IN /\ matchResult.isValid => (tables = <<>> /\ printed = {})
       /\ ~matchResult.isValid =>
            (Len(tables) >= 1 /\ printed = {"SomePropertiesAreNotMatching"})
       /\ Len(tables) = Len(failing)
       /\ \A i \in 1..Len(tables) :
            /\ tables[i].title = failing[i].title
            /\ tables[i].header = <<matchWeb.ClientName, matchNative.ClientName>>
            /\ Len(tables[i].rows) = Longest(failing[i].web, failing[i].native)
            /\ \A r \in 1..Len(tables[i].rows) :
                 /\ Len(tables[i].rows[r]) = 2
                 /\ tables[i].rows[r][1] # NoValue
                 /\ tables[i].rows[r][2] # NoValue
            /\ ColumnValues(tables[i].rows, 1) = Range(OrEmpty(failing[i].web)) \ {""}
            /\ ColumnValues(tables[i].rows, 2) = Range(OrEmpty(failing[i].native)) \ {""}

\* A mismatch in the provider set, the flag and the allowed flows only: three
\* tables, the provider table with a padded web column.
C28_Witness ==
  /\ matchPc = "matched"
  /\ ~matchResult.isValid
  /\ Len(matchResult.tables) = 3
  /\ matchResult.tables[1].title = "Configured Identity Providers:"
  /\ matchResult.tables[2].title = "OAuth Flow Enabled for Application Client:"
  /\ matchResult.tables[3].title = "Allowed OAuth Flows:"
  /\ matchWeb.SupportedIdentityProviders = NoList
  /\ Len(matchResult.tables[1].rows) = 2
  /\ matchResult.tables[1].rows[1][1] = ""
  /\ Len(matchResult.tables[3].rows) = 2

\* The choices are in ascending order of their labels.
SortedByLabel(choices) ==
  \A i, j \in 1..Len(choices) : i < j => ~labelBefore(choices[j].message, choices[i].message)

\* The question asked for a role: none when the role has exactly one
\* candidate, otherwise one question whose choices are the candidates, by label.
RoleQuestionAsExpected(questions, name, candidates) ==
  LET ofRole == SelectSeq(questions, LAMBDA q : q.name = name)
  IN IF Len(candidates) = 1 THEN ofRole = <<>>
     ELSE /\ Len(ofRole) = 1
          /\ Len(ofRole[1].choices) = Len(candidates)
          /\ {ofRole[1].choices[k].value : k \in 1..Len(candidates)}
               = {candidates[k].ClientId : k \in 1..Len(candidates)}
          /\ \A k \in 1..Len(candidates) :
               ofRole[1].choices[k].message.id = ofRole[1].choices[k].value
          /\ SortedByLabel(ofRole[1].choices)

\* C29: in every pass of the selection, a role with exactly one candidate is
\* filled with that candidate without a question; any other role is filled
\* through one question per pass, whose choices are the role's candidates in
\* label order; the both-auto flag of the pass is true exactly when both roles
\* had one candidate; each selected client is one of its role's candidates.
C29_PerRoleSelection ==
  LET webClients == questionParameters.webClients
      nativeClients == questionParameters.nativeClients
      questions == selectAppClients(questionParameters, answers, NoId, NoId).questions
  IN /\ pc = "appClients" =>
          /\ RoleQuestionAsExpected(questions, "appClientWebId", webClients)
          /\ RoleQuestionAsExpected(questions, "appClientNativeId", nativeClients)
          /\ Len(questions) = (IF Len(webClients) = 1 THEN 0 ELSE 1)
                                + (IF Len(nativeClients) = 1 THEN 0 ELSE 1)
     /\ pc = "webQuestion" =>
          /\ Len(webClients) # 1
          /\ asked.appClientWebId = attempt
          /\ asked.appClientNativeId = IF Len(nativeClients) = 1 THEN 0 ELSE attempt - 1
          /\ answers.appClientWeb = NoObject /\ answers.appClientNative = NoObject
          /\ "MultipleAppClients(Web)" \in printed
     /\ pc = "nativeQuestion" =>
          /\ Len(nativeClients) # 1
          /\ asked.appClientNativeId = attempt
          /\ asked.appClientWebId = IF Len(webClients) = 1 THEN 0 ELSE attempt
          /\ answers.appClientWeb \in Range(webClients)
          /\ answers.appClientNative = NoObject
          /\ "MultipleAppClients(Native)" \in printed
     /\ pc = "compare" =>
          /\ "SingleAppClientSelected(Web)" \in printed <=> Len(webClients) = 1
          /\ "MultipleAppClients(Web)" \in printed <=> Len(webClients) # 1
          /\ "SingleAppClientSelected(Native)" \in printed <=> Len(nativeClients) = 1
          /\ "MultipleAppClients(Native)" \in printed <=> Len(nativeClients) # 1
          /\ asked.appClientWebId = IF Len(webClients) = 1 THEN 0 ELSE attempt
          /\ asked.appClientNativeId = IF Len(nativeClients) = 1 THEN 0 ELSE attempt
          /\ Len(webClients) = 1 => answers.appClientWeb = webClients[1]
          /\ Len(nativeClients) = 1 => answers.appClientNative = nativeClients[1]
          /\ answers.appClientWeb \in Range(webClients)
          /\ answers.appClientNative \in Range(nativeClients)
          /\ BothAutoSelected(questionParameters)
               <=> (Len(webClients) = 1 /\ Len(nativeClients) = 1)

\* One native candidate, taken without a question; two web candidates, listed
\* gamma before alpha, of which the operator chose the second.
C29_Witness ==
  /\ pc = "compare"
  /\ Len(questionParameters.webClients) = 2
  /\ Len(questionParameters.nativeClients) = 1
  /\ questionParameters.webClients[1].ClientName = "gamma"
  /\ questionParameters.webClients[2].ClientName = "alpha"
  /\ answers.appClientWeb = questionParameters.webClients[2]
  /\ asked.appClientWebId = 1
  /\ asked.appClientNativeId = 0
  /\ ~BothAutoSelected(questionParameters)

\* The multi-factor configuration the account holds for each pool of PoolIds,
\* which no step of the program gets to read: the pools at odd positions send
\* their codes by SMS through a role.
UserPoolMfaConfig(poolId) ==
  IF PoolIndex(poolId) % 2 = 1
  THEN [SmsMfaConfiguration |-> [SmsConfiguration |-> [SnsCallerArn |-> "arn:sns-role"]]]
  ELSE [SmsMfaConfiguration |-> NoObject]

\* The pool's MFA mode is not OFF and the MFA configuration the account holds
\* for it has an SMS configuration.
SmsConfigured ==
  /\ remote.detail # NoObject
  /\ remote.detail.MfaConfiguration # "OFF"
  /\ smsConfigurationOf(UserPoolMfaConfig(remote.detail.Id)) # NoObject

\* C30: the full output holds CreatedSNSRole exactly when the pool's MFA mode
\* is not OFF and its MFA configuration holds an SMS configuration, both in
\* the output the import writes and in the output the Rehydrator builds, and
\* the two hold the same role.
C30_SnsRoleIffSmsConfigured ==
  /\ persisted # NoObject =>
       ("CreatedSNSRole" \in DOMAIN persisted.meta <=> SmsConfigured)
  /\ (pc = "rehydrated" /\ rehydrated.succeeded) =>
       /\ "CreatedSNSRole" \in DOMAIN rehydrated.output <=> SmsConfigured
       /\ SmsConfigured =>
            rehydrated.output["CreatedSNSRole"] = persisted.meta["CreatedSNSRole"]

\* The session ended without an accept: no pool listed, the only pool not
\* eligible, or a mismatch that ended the loop.
Aborted ==
  \/ "NoPoolsInRegion" \in printed
  \/ "OnePoolNotValid" \in printed
  \/ ForcedFailure

\* The loop ended in an accept and the answer holds a pool and both clients.
AcceptedWithSelections ==
  /\ importSucceeded
  /\ lastAttempt.branch \in {"trivial", "matched"}
  /\ answers.userPoolId # NoValue
  /\ answers.userPool # NoObject
  /\ answers.appClientWeb # NoObject
  /\ answers.appClientNative # NoObject

\* C31: updateStateFiles is called at most once in a session, and only when
\* the loop ended in an accept with a pool, a web client and a native client
\* in the answer; a session that ended without an accept, or that a rejected
\* read ended, never calls it.
C31_WriterCalledOnceAfterAccept ==
  /\ writes <= 1
  /\ (writes = 0) <=> (persisted = NoObject)
  /\ pc \in AfterLoop \ {"done"} => AcceptedWithSelections
  /\ writes = 1 => (AcceptedWithSelections /\ pc \in {"written", "done"} \cup RehydrationPcs)
  /\ Aborted => (writes = 0 /\ pc = "done")
  /\ pc = "threw" => writes = 0

\* The session wrote once, after an accept reached on a second pass.
C31_Witness ==
  /\ writes = 1
  /\ pc = "done"
  /\ attempt = 2
  /\ AcceptedWithSelections

\* C32: once a pool is recorded in the answer, the web and native candidates
\* are exactly the clients without a secret and the clients with a secret of
\* that pool, none of them a client of another pool; they are saved when the
\* pool passes the check, just before it is recorded; until then, whatever
\* pools the question rejected, the candidate sets are as createParameters
\* left them.
C32_CandidatesOfSelectedDirectory ==
  LET webClients == questionParameters.webClients
      nativeClients == questionParameters.nativeClients
  IN /\ answers.userPoolId # NoValue => remote.poolId = answers.userPoolId
     /\ remote.poolId # NoValue =>
          /\ webClients = SelectSeq(remote.clients, LAMBDA c : c.ClientSecret = NoValue)
          /\ nativeClients
               = SelectSeq(remote.clients, LAMBDA c : c.ClientSecret \notin {NoValue, ""})
          /\ \A c \in Range(webClients) \cup Range(nativeClients) :
               c.ClientId[1] = remote.poolId
     /\ (answers.userPoolId = NoValue /\ pc # "userPoolValidated") =>
          (webClients = <<>> /\ nativeClients = <<>> /\ remote.poolId = NoValue)
     /\ rejected # NoValue =>
          (pc \in {"userPool", "userPoolValidation"} /\ answers.userPoolId = NoValue)

\* The question has just rejected pool "p1" and stays open, the candidate
\* sets still empty.
C32_Witness ==
  /\ pc = "userPool"
  /\ rejected = "p1"
  /\ asked.userPoolId = 1
  /\ questionParameters.webClients = <<>>
  /\ questionParameters.nativeClients = <<>>

\* C33: every client of the selected pool is a candidate of exactly one role,
\* whatever its secret (absent, empty, non-empty): no client is both a web
\* and a native candidate; so the native client of a written output has a
\* non-empty secret and the web client has none.
C33_RolesPartitionClients ==
  LET web == Range(questionParameters.webClients)
      native == Range(questionParameters.nativeClients)
  IN /\ web \cap native = {}
     /\ answers.userPoolId # NoValue =>
          \A c \in Range(remote.clients) : (c \in web) # (c \in native)
     /\ persisted # NoObject =>
          /\ answers.appClientNative.ClientSecret \notin {NoValue, ""}
          /\ answers.appClientWeb.ClientSecret = NoValue

\* C34: when calls of listUserPools on one instance overlap, the cache still
\* holds every remote pool exactly once, and every call returns a list equal
\* to the remote listing.
C34_OverlappingCallsFillOnce ==
  /\ \A pool \in Range(remotePools) : Count(pool, cachedUserPoolIds) <= 1
  /\ \A i \in 1..MaxCalls :
       calls[i].state = "returned" =>
         /\ calls[i].value = remotePools
         /\ cachedUserPoolIds = remotePools

\* The session ended on a mismatch.
EndedOnMismatch == pc = "done" /\ ~importSucceeded /\ lastAttempt.branch = "mismatch"

\* C35: once a pool is selected the candidate sets stay as they are through
\* every pass of the loop, so the both-auto flag of a pass equals that of the
\* pass before; a mismatch with both clients auto-selected can only be that of
\* the first pass, and a session in which the operator was asked for a client
\* never ends on a mismatch.
C35_FlagStableAcrossAttempts ==
  /\ [][answers.userPoolId # NoValue =>
          /\ questionParameters'.webClients = questionParameters.webClients
          /\ questionParameters'.nativeClients = questionParameters.nativeClients]_vars
  /\ [](lastAttempt.branch # "none" =>
          lastAttempt.bothAppClientsWereAutoSelected
            = questionParameters.bothAppClientsWereAutoSelected)
  /\ [](ForcedMismatch =>
          /\ attempt = 1
          /\ asked.appClientWebId = 0
          /\ asked.appClientNativeId = 0)
  /\ [](asked.appClientWebId + asked.appClientNativeId > 0 =>
          (~ForcedMismatch /\ ~EndedOnMismatch))

\* A second pass is under way after a mismatch in which the operator had
\* chosen a client; its both-auto flag is false, as in the first pass.
C35_Witness ==
  /\ pc = "compare"
  /\ attempt = 2
  /\ lastAttempt.branch = "mismatch"
  /\ lastAttempt.bothAppClientsWereAutoSelected = "false"
  /\ questionParameters.bothAppClientsWereAutoSelected = "false"
  /\ asked.appClientWebId + asked.appClientNativeId >= 2

\* The two clients agree on all six properties and declare providers, none of
\* which is a supported one.
NoSupportedProvider(web, native) ==
  /\ AllSixMatch(web, native)
  /\ DeclaresProviders(web)
  /\ ProvidersOf(web) \cap {"COGNITO", "Facebook", "Google", "LoginWithAmazon"} = {}

\* The rehydration has looked up two clients that agree on all six properties
\* and declare no supported provider.
RehydratedNoSupportedProvider ==
  /\ pc \in RehydrationPcs
  /\ rehydrated.answers.appClientNative # NoObject
  /\ NoSupportedProvider(rehydrated.answers.appClientWeb, rehydrated.answers.appClientNative)

\* C36: two clients that agree on all six properties and declare no supported
\* provider are accepted with an empty provider list; the identity providers
\* of the pool are then not fetched, the full output has no OAuthMetadata and
\* no credentials are built, by the import and by the later rebuild of the
\* output alike; credentials are built only after the identity providers
\* were fetched: while the rebuild waits for them it holds no credentials and
\* no output, and it holds credentials only with the providers in its answers.
C36_EmptyAcceptedProviders ==
  /\ ( /\ lastAttempt.branch # "none"
       /\ NoSupportedProvider(lastAttempt.appClientWeb, lastAttempt.appClientNative) ) =>
       /\ lastAttempt.branch = "matched"
       /\ importSucceeded
       /\ answers.oauthProviders = <<>>
       /\ remote.identityProviders = <<Unread>>
       /\ persisted # NoObject =>
            /\ "OAuthMetadata" \notin DOMAIN persisted.meta
            /\ persisted.hostedUIProviderCreds = NoCreds
  /\ RehydratedNoSupportedProvider =>
       /\ pc \in {"rehydrate:matching", "rehydrated"}
       /\ rehydrated.oauthResult.isValid
       /\ rehydrated.oauthResult.oauthProviders = <<>>
       /\ rehydrated.identityProviderCalls = 0
       /\ rehydrated.answers.identityProviders = <<NoObject>>
       /\ remote.identityProviders = <<Unread>>
       /\ ~rehydrated.thrown
       /\ pc = "rehydrated" =>
            /\ rehydrated.succeeded
            /\ "OAuthMetadata" \notin DOMAIN rehydrated.output
            /\ rehydrated.hostedUIProviderCreds = NoCreds
  /\ (persisted # NoObject /\ persisted.hostedUIProviderCreds # NoCreds) =>
       /\ remote.identityProviders # <<Unread>>
       /\ answers.identityProviders = remote.identityProviders
  /\ pc = "rehydrate:identityProviders" =>
       /\ rehydrated.identityProviderCalls = 1
       /\ rehydrated.answers.identityProviders = <<NoObject>>
       /\ rehydrated.hostedUIProviderCreds = NoCreds
       /\ rehydrated.output = NoObject
  /\ (pc \in RehydrationPcs /\ rehydrated.hostedUIProviderCreds # NoCreds) =>
       /\ pc = "rehydrated"
       /\ rehydrated.identityProviderCalls = 1
       /\ rehydrated.answers.identityProviders = remote.identityProviders
       /\ rehydrated.answers.identityProviders # <<NoObject>>

\* Both clients declare SignInWithApple only, with callback and logout URLs,
\* flows and scopes set; the import wrote its output and the output was rebuilt.
C36_Witness ==
  /\ pc = "rehydrated"
  /\ rehydrated.succeeded
  /\ rehydrated.identityProviderCalls = 0
  /\ lastAttempt.branch = "matched"
  /\ lastAttempt.appClientWeb.SupportedIdentityProviders = <<"SignInWithApple">>
  /\ NoSupportedProvider(lastAttempt.appClientWeb, lastAttempt.appClientNative)
  /\ RehydratedNoSupportedProvider
  /\ lastAttempt.appClientWeb.CallbackURLs = <<"https://a/">>
  /\ lastAttempt.appClientWeb.LogoutURLs = <<"https://a/">>
  /\ lastAttempt.appClientWeb.AllowedOAuthFlows = <<"code">>
  /\ lastAttempt.appClientWeb.AllowedOAuthScopes = <<"openid">>

====
